---- MODULE Spec2Model ----
(***************************************************************************)
(* Module adapter of the SOF audio firmware                                *)
(* (src/src/audio/module_adapter/module_adapter.c): one adapter component, *)
(* the buffers attached to it, the heap blocks it owns and its lifecycle.  *)
(* Sizes are in bytes; one frame is FrameBytes bytes.                      *)
(***************************************************************************)
EXTENDS Integers, Sequences, FiniteSets, TLC

VARIABLES
    config,     \* what module_adapter_new is given: ipc config and module interface
    dev,        \* struct comp_dev: alive, state, type, proc_domain, period
    mod,        \* struct processing_module (and its module_data)
    heap,       \* number of live blocks of every kind
    bsource,    \* dev->bsource_list: the attached source buffers
    bsink,      \* dev->bsink_list: the attached sink buffers
    lbuf,       \* mod->sink_buffer_list: the intermediate sink buffers
    op,         \* the adapter operation that ran last
    ret,        \* what it returned
    calls,      \* the module / framework entry points it invoked
    process_ret, \* what the module's process returned to it, if it ran
    ghost,      \* history: double frees, overruns, missing writebacks, bad indexes
    mem,        \* the bytes in the memory of the first sink buffer
    ctl,        \* binary control transfers: the static size, the fragments sent
    cd,         \* struct comp_data: the driver list and its lock, and the callers
    ppl,        \* init_static_pipeline: where it is, the objects that exist
    tick,       \* scheduler ticks the streaming component has been run for
    dpp,        \* DP period: the sinks' min_free_space, dev->period before and after
    ca,         \* ring/scratch copy: the arguments of a call and the memory after it
    irq,        \* prepare/free statement by statement: position, interrupt mask, list
    rate,       \* stream rate of the attached source and sink buffers, 0: none
    scr         \* input scratch buffer: the sizes prepare was given and the size it chose

\* what the handlers above keep no track of
aside == <<mem, ctl, cd, ppl, tick, dpp, ca, irq, rate, scr>>

\* what the adapter's lifecycle and copy handlers work on
adapter == <<config, dev, mod, heap, bsource, bsink, lbuf, op, ret, calls, process_ret,
             ghost>>

vars == <<adapter, aside>>

-----------------------------------------------------------------------------
\* Status and error codes as the adapter uses them.
ENOMEM == 12
EINVAL == 22
ENOSPC == 28
ENODATA == 61
PPL_STATUS_PATH_STOP == 1
COMP_STATUS_STATE_ALREADY_SET == 1
NoRet == 99

\* Bounds of the model.
MaxBufs == 2        \* buffers attached on one side of the component
MaxTotal == 2       \* copy passes stop being explored once a byte counter passes this

\* Stream geometry used for every attached buffer.
FrameBytes == 1
Frames == 2         \* dev->frames: frames per period
BufSize == 2 * Frames * FrameBytes      \* an attached buffer holds two periods
Rate == 48000

Min(a, b) == IF a < b THEN a ELSE b
Max(a, b) == IF a > b THEN a ELSE b

Idx == 0 .. (MaxBufs - 1)

-----------------------------------------------------------------------------
\* Heap: blocks are counted by kind.
Kinds == {"dev", "mod", "stream_params", "input_buffers", "output_buffers",
          "in_data", "out_data", "local_buffer", "dp_queue"}

EmptyHeap == [k \in Kinds |-> 0]

\* rzalloc / rballoc / buffer_alloc / dp_queue_create, when they succeed
Alloc(h, k) == [h EXCEPT ![k] = @ + 1]

\* A pointer is "NULL", "live" (its block is allocated) or "freed" (the
\* block was released and the pointer kept its value).
\* rfree(ptr) of a block of kind k: the heap afterwards.
Rfree(h, k, ptr) == IF ptr = "live" THEN [h EXCEPT ![k] = @ - 1] ELSE h

\* the pointer value seen by later code: C leaves it as it was
Freed(ptr) == IF ptr = "live" THEN "freed" ELSE ptr

\* a release of a block that is no longer allocated
DoubleFree(k, ptr) == IF ptr = "freed" THEN {k} ELSE {}

-----------------------------------------------------------------------------
\* Audio stream of a comp_buffer.
NewBuf(size, peer) ==
    [size |-> size, r |-> 0, w |-> 0, avail |-> 0, free |-> size, peer |-> peer]

\* audio_stream_produce: advance the write pointer; a produce over the free
\* space overwrites the oldest data (the read pointer follows).
audio_stream_produce(b, n) ==
    LET w2 == (b.w + n) % b.size
        over == n > b.free
        a2 == IF over THEN b.size ELSE b.avail + n
    IN  [b EXCEPT !.w = w2, !.r = IF over THEN w2 ELSE b.r,
                  !.avail = a2, !.free = b.size - a2]

\* audio_stream_consume: advance the read pointer.
audio_stream_consume(b, n) ==
    LET r2 == (b.r + n) % b.size
        a2 == IF n > b.avail THEN 0 ELSE b.avail - n
    IN  [b EXCEPT !.r = r2, !.w = IF n > b.avail THEN r2 ELSE b.w,
                  !.avail = a2, !.free = b.size - a2]

audio_stream_get_avail_frames(b) == b.avail \div FrameBytes
audio_stream_get_free_frames(b) == b.free \div FrameBytes
audio_stream_avail_frames_aligned(src, snk) ==
    Min(audio_stream_get_avail_frames(src), audio_stream_get_free_frames(snk))

-----------------------------------------------------------------------------
\* Lifecycle: comp_set_state.  Returns <<return value, new state>>.
States == {"READY", "PREPARE", "ACTIVE", "PAUSED"}
Cmds == {"START", "RELEASE", "PAUSE", "STOP"}

RequestedState(cmd) ==
    CASE cmd = "START" -> "ACTIVE"
      [] cmd = "RELEASE" -> "ACTIVE"
      [] cmd = "PAUSE" -> "PAUSED"
      [] cmd = "STOP" -> "PREPARE"
      [] cmd = "PREPARE" -> "PREPARE"
      [] OTHER -> "READY"

Allowed(cmd, s) ==
    CASE cmd = "START" -> s \in {"PREPARE", "PAUSED"}
      [] cmd = "RELEASE" -> s = "PAUSED"
      [] cmd = "PAUSE" -> s = "ACTIVE"
      [] cmd = "STOP" -> s \in {"ACTIVE", "PAUSED"}
      [] cmd = "PREPARE" -> s = "READY"
      [] OTHER -> TRUE

comp_set_state(s, cmd) ==
    IF s = RequestedState(cmd) THEN <<COMP_STATUS_STATE_ALREADY_SET, s>>
    ELSE IF ~Allowed(cmd, s) THEN <<-EINVAL, s>>
    ELSE <<0, RequestedState(cmd)>>

-----------------------------------------------------------------------------
\* Binary control data (SET_DATA / GET_DATA).  A blob of up to MaxElems
\* elements goes to a component in fragments; MaxComps components take them.
\* before module_adapter_dp_queue_prepare: no sink seen, no period set
NoDpp == [min_free |-> << >>, before |-> 0, period |-> 0]

MaxCap == 3          \* bytes in a ring buffer or a scratch buffer of the copy helpers
MaxTicks == 5        \* scheduler ticks a stream is followed for
MaxComps == 2
MaxElems == 3

\* uint32_t arithmetic, on a scaled-down width
UintRange == 256

\* no transfer under way, no call made; size is the static of
\* module_adapter_get_set_params
NoCtl == [size |-> 0,
          xfer |-> [c \in 1 .. MaxComps |-> [total |-> 0, left |-> 0, msg_index |-> 0]],
          last |-> [comp |-> 0, set |-> TRUE, msg_index |-> 0, num_elems |-> 0,
                    elems_remaining |-> 0, pos |-> "NONE", data_offset_size |-> 0]]

-----------------------------------------------------------------------------
\* The component registry.  MaxCallers contexts call into it, MaxDrivers
\* drivers exist, told apart by their uuid.
MaxCallers == 2
MaxDrivers == 2

\* after sys_comp_init: the list is empty and the lock free (lock is the
\* caller holding it, 0 for none); every caller is outside the registry
NoCd == [lock |-> 0, list |-> {},
         pc |-> [p \in 1 .. MaxCallers |-> "idle"],
         fn |-> [p \in 1 .. MaxCallers |-> "none"],
         uuid |-> [p \in 1 .. MaxCallers |-> 0],
         dev |-> [p \in 1 .. MaxCallers |-> "NULL"]]

-----------------------------------------------------------------------------
\* The static pipeline.  pipeline[] has one entry, so spipe[0] is the only
\* one built: two component arrays (ids 0 and 1, 2), two buffers, one
\* connection.
spipe == [pipeline_id |-> 100, scomps |-> << <<0>>, <<1, 2>> >>, buffer |-> <<0, 1>>,
          num_connections |-> 1, connect |-> << <<0, 1>> >>]

\* before init_static_pipeline: nothing exists.  pc is the next call of
\* the construction (mode "build") or of the error: label (mode "error").
NoPpl == [mode |-> "build", pc |-> 1, live |-> {}, freed |-> << >>,
          failed |-> FALSE, ret |-> NoRet]

-----------------------------------------------------------------------------
\* input_stream_buffer / output_stream_buffer; data is "NULL", "live" or
\* "freed" (a scratch block of the heap) or "stream" (an attached buffer).
NoDesc == [size |-> 0, consumed |-> 0, data |-> "NULL"]
ZeroDescs == [i \in Idx |-> NoDesc]
\* a list head of DP queues: zeroed memory until list_init runs
NoList == [init |-> FALSE, q |-> << >>]
NoGhost == [dfree |-> {}, overrun |-> FALSE, underrun |-> FALSE, dirty |-> FALSE,
            oob |-> FALSE, badptr |-> FALSE]

\* A double free, a dereference of a NULL or stale pointer and an access
\* past the end of an array are undefined behaviour: the run is followed up
\* to the first of them and no further.
Healthy == ghost.dfree = {} /\ ~ghost.badptr /\ ~ghost.oob

NoDev == [alive |-> FALSE, state |-> "NONE", type |-> "MODULE",
          proc_domain |-> "LL", period |-> 0]

NoMod == [alive |-> FALSE, mode |-> "AUDIO_STREAM", no_pause |-> FALSE,
          has_trigger |-> FALSE, ipc4 |-> FALSE,
          max_sources |-> 0, max_sinks |-> 0,
          in_buff_size |-> 0, out_buff_size |-> 0,
          md_state |-> "DISABLED",
          stream_params |-> "NULL",
          input_buffers |-> "NULL", output_buffers |-> "NULL",
          in_desc |-> ZeroDescs, out_desc |-> ZeroDescs,
          num_of_sources |-> 0, num_of_sinks |-> 0,
          sources |-> [i \in Idx |-> "NULL"], sinks |-> [i \in Idx |-> "NULL"],
          dp_queue_ll_to_dp_list |-> NoList, dp_queue_dp_to_ll_list |-> NoList,
          deep_buff_bytes |-> 0, period_bytes |-> 0, output_buffer_size |-> 0,
          stream_copy_single_to_single |-> FALSE,
          total_data_consumed |-> 0, total_data_produced |-> 0]

\* What the ipc config and the hosted module's interface declare.
ModuleCfgs ==
    [type : {"MODULE", "HOST"}, proc_domain : {"LL", "DP"},
     mode : {"AUDIO_STREAM", "RAW_DATA", "SINK_SOURCE"},
     no_pause : BOOLEAN, has_trigger : BOOLEAN, ipc4 : BOOLEAN,
     max_sources : 1 .. MaxBufs, max_sinks : 1 .. MaxBufs,
     in_buff_size : {1, 2}, out_buff_size : {1, 2}]

\* The state before the component is created: the config it will be created
\* from is one of cfgs, ns source and nk sink buffers are attached to it and
\* the upstream components have written a first period.
InitWith(cfgs, nsrcs, nsnks) ==
    /\ config \in cfgs
    /\ dev = NoDev
    /\ mod = NoMod
    /\ heap = EmptyHeap
    /\ \E ns \in nsrcs, nk \in nsnks :
         /\ bsource = [i \in 1 .. ns |->
                          audio_stream_produce(NewBuf(BufSize, "ACTIVE"), Frames * FrameBytes)]
         /\ bsink = [i \in 1 .. nk |-> NewBuf(BufSize, "ACTIVE")]
    /\ lbuf = << >>
    /\ op = "none"
    /\ ret = NoRet
    /\ calls = {}
    /\ process_ret = NoRet
    /\ ghost = NoGhost
    /\ mem = << >>
    /\ ctl = NoCtl
    /\ cd = NoCd
    /\ ppl = NoPpl
    /\ tick = 0
    /\ dpp = NoDpp
    /\ ca = << >>
    /\ irq = << >>
    /\ rate = [source |-> Rate, sink |-> Rate]
    /\ scr = << >>

-----------------------------------------------------------------------------
IsEndpoint == dev.type = "HOST"

\* module_init: the module's init op ran; the module data is INITIALIZED
module_init(c) ==
    [NoMod EXCEPT !.alive = TRUE, !.mode = c.mode, !.no_pause = c.no_pause,
                  !.has_trigger = c.has_trigger, !.ipc4 = c.ipc4,
                  !.max_sources = c.max_sources, !.max_sinks = c.max_sinks,
                  !.in_buff_size = c.in_buff_size,
                  !.out_buff_size = c.out_buff_size,
                  !.md_state = "INITIALIZED",
                  !.dp_queue_ll_to_dp_list = NoList,
                  !.dp_queue_dp_to_ll_list = NoList]

\* an err: label that releases the module structure only
NewErrFreeModOnly(h) == Rfree(h, "mod", "live")

\* the err: label of module_adapter_new
NewErrFree(h) == Rfree(Rfree(h, "mod", "live"), "dev", "live")

\* module_adapter_new.  fail names the first step that fails.
module_adapter_new(c, fail) ==
    /\ ~dev.alive
    /\ heap = EmptyHeap
    /\ op' = "new"
    /\ calls' = {} /\ process_ret' = NoRet
    /\ UNCHANGED <<aside, config, bsource, bsink, lbuf, ghost>>
    /\ IF fail \in {"config", "comp_alloc"}
       THEN /\ ret' = -1
            /\ UNCHANGED <<dev, mod, heap>>
       ELSE LET h1 == Alloc(heap, "dev")
            IN  IF fail = "rzalloc"
                THEN /\ heap' = Rfree(h1, "dev", "live")
                     /\ ret' = -1
                     /\ UNCHANGED <<dev, mod>>
                ELSE LET h2 == Alloc(h1, "mod")
                     IN  IF fail \in {"init_data", "module_init"}
                         THEN /\ heap' = NewErrFree(h2)
                              /\ ret' = -1
                              /\ UNCHANGED <<dev, mod>>
                         ELSE /\ heap' = h2
                              /\ dev' = [alive |-> TRUE, state |-> "READY",
                                         type |-> c.type,
                                         proc_domain |-> c.proc_domain,
                                         period |-> 0]
                              /\ mod' = module_init(c)
                              /\ ret' = 0

NewFails == {"none", "config", "comp_alloc", "rzalloc", "init_data", "module_init"}

New == Healthy /\ \E fail \in NewFails : module_adapter_new(config, fail)

-----------------------------------------------------------------------------
\* module_adapter_params.  vret is comp_verify_params, oom a failed rzalloc.
module_adapter_params(vret, oom) ==
    /\ dev.alive
    /\ dev.state # "ACTIVE"
    /\ op' = "params"
    /\ calls' = {} /\ process_ret' = NoRet
    /\ UNCHANGED <<aside, config, dev, bsource, bsink, lbuf>>
    /\ IF vret < 0
       THEN /\ ret' = vret
            /\ UNCHANGED <<mod, heap, ghost>>
       ELSE LET h1 == Rfree(heap, "stream_params", mod.stream_params)
                df == DoubleFree("stream_params", mod.stream_params)
            IN  /\ ghost' = [ghost EXCEPT !.dfree = @ \cup df]
                /\ IF oom
                   THEN /\ heap' = h1
                        /\ mod' = [mod EXCEPT !.stream_params = "NULL"]
                        /\ ret' = -ENOMEM
                   ELSE /\ heap' = Alloc(h1, "stream_params")
                        /\ mod' = [mod EXCEPT !.stream_params = "live"]
                        /\ ret' = 0

Params ==
    Healthy /\ \E vret \in {0, -EINVAL}, oom \in BOOLEAN : module_adapter_params(vret, oom)

-----------------------------------------------------------------------------
\* module_adapter_set_state: the state setter of the adapter
module_adapter_set_state(cmd) == comp_set_state(dev.state, cmd)

\* a trigger without the shortcut
NoPauseShortcutNever(cmd) == FALSE

\* the no_pause shortcut of module_adapter_trigger
NoPauseShortcut(cmd) == cmd = "PAUSE" /\ mod.no_pause

\* module_adapter_trigger.  mret is what the endpoint's or the module's own
\* trigger op returns when it refuses; 0 when it performs the transition.
module_adapter_trigger(cmd, mret) ==
    /\ dev.alive
    /\ op' = "trigger"
    /\ UNCHANGED <<aside, config, mod, heap, bsource, bsink, lbuf, ghost>>
    /\ IF IsEndpoint
       THEN LET r == comp_set_state(dev.state, cmd)
            IN  /\ calls' = {"endpoint_trigger"} /\ process_ret' = NoRet
                /\ IF mret # 0
                   THEN ret' = mret /\ UNCHANGED dev
                   ELSE ret' = r[1] /\ dev' = [dev EXCEPT !.state = r[2]]
       ELSE IF NoPauseShortcut(cmd)
       THEN /\ mret = 0
            /\ dev' = [dev EXCEPT !.state = "ACTIVE"]
            /\ ret' = PPL_STATUS_PATH_STOP
            /\ calls' = {} /\ process_ret' = NoRet
       ELSE IF mod.has_trigger
       THEN LET r == module_adapter_set_state(cmd)
            IN  /\ IF mret # 0
                   THEN /\ ret' = mret /\ UNCHANGED dev
                        /\ calls' = {"module_trigger"} /\ process_ret' = NoRet
                   ELSE /\ ret' = r[1]
                        /\ dev' = [dev EXCEPT !.state = r[2]]
                        /\ calls' = {"module_trigger", "set_state"} /\ process_ret' = NoRet
       ELSE LET r == module_adapter_set_state(cmd)
            IN  /\ mret = 0
                /\ ret' = r[1]
                /\ dev' = [dev EXCEPT !.state = r[2]]
                /\ calls' = {"set_state"} /\ process_ret' = NoRet

Trigger ==
    Healthy /\ \E cmd \in Cmds, mret \in {0, -EINVAL} : module_adapter_trigger(cmd, mret)

-----------------------------------------------------------------------------
\* The adapter's handlers below are written as functions of a snapshot
\* S = [dev, mod, heap, lbuf, ghost, bsource, bsink] and return the snapshot they leave.
Snap == [dev |-> dev, mod |-> mod, heap |-> heap, lbuf |-> lbuf,
         ghost |-> [ghost EXCEPT !.overrun = FALSE, !.underrun = FALSE, !.dirty = FALSE],
         bsource |-> bsource, bsink |-> bsink]

Commit(S) ==
    /\ dev' = S.dev
    /\ mod' = S.mod
    /\ heap' = S.heap
    /\ lbuf' = S.lbuf
    /\ ghost' = S.ghost
    /\ bsource' = S.bsource
    /\ bsink' = S.bsink
    /\ UNCHANGED <<aside, config>>

NSources == Len(bsource)
NSinks == Len(bsink)

PeriodBytes == Frames * FrameBytes      \* audio_stream_period_bytes(sink, dev->frames)

IsRaw(m) == m.mode = "RAW_DATA"
IsAudioStream(m) == m.mode = "AUDIO_STREAM"
IsSinkSource(m) == m.mode = "SINK_SOURCE"

\* for (i = 0; i < n; i++) rfree(descs[i].data), on the input or output
\* descriptor array.  Reading through an array pointer that is not live, or
\* past the end of the array, is recorded.
FreeDescData(S, side, n) ==
    LET descs == IF side = "in" THEN S.mod.in_desc ELSE S.mod.out_desc
        arr == IF side = "in" THEN S.mod.input_buffers ELSE S.mod.output_buffers
        lim == IF side = "in" THEN S.mod.max_sources ELSE S.mod.max_sinks
        kind == IF side = "in" THEN "in_data" ELSE "out_data"
        range == {i \in Idx : i < n}
        nlive == Cardinality({i \in range : descs[i].data = "live"})
        dbl == IF \E i \in range : descs[i].data = "freed" THEN {kind} ELSE {}
        nd == [i \in Idx |-> IF i \in range
                             THEN [descs[i] EXCEPT !.data = Freed(@)]
                             ELSE descs[i]]
    IN  IF n = 0 THEN S
        ELSE IF arr # "live"
        THEN [S EXCEPT !.ghost.badptr = TRUE]
        ELSE [S EXCEPT !.heap[kind] = @ - nlive,
                       !.ghost.dfree = @ \cup dbl,
                       !.ghost.oob = @ \/ (n > lim),
                       !.mod.in_desc = IF side = "in" THEN nd ELSE @,
                       !.mod.out_desc = IF side = "out" THEN nd ELSE @]

\* rfree(mod->output_buffers); rfree(mod->input_buffers);
FreeDescArrays(S) ==
    [S EXCEPT !.heap = Rfree(Rfree(@, "output_buffers", S.mod.output_buffers),
                             "input_buffers", S.mod.input_buffers),
              !.ghost.dfree = @ \cup DoubleFree("output_buffers", S.mod.output_buffers)
                                \cup DoubleFree("input_buffers", S.mod.input_buffers),
              !.mod.output_buffers = Freed(@),
              !.mod.input_buffers = Freed(@)]

\* list_for_item_safe(...) dp_queue_free(...) over one DP queue list.
\* Walking a list head that list_init never set up is recorded.
FreeQueueList(S, which) ==
    LET l == IF which = "ll_to_dp" THEN S.mod.dp_queue_ll_to_dp_list
             ELSE S.mod.dp_queue_dp_to_ll_list
        e == [l EXCEPT !.q = << >>]
    IN  IF ~l.init THEN [S EXCEPT !.ghost.badptr = TRUE]
        ELSE [S EXCEPT !.heap["dp_queue"] = @ - Len(l.q),
                       !.mod.dp_queue_ll_to_dp_list = IF which = "ll_to_dp" THEN e ELSE @,
                       !.mod.dp_queue_dp_to_ll_list = IF which = "dp_to_ll" THEN e ELSE @]

QueueListLen(l) == IF l.init THEN Len(l.q) ELSE 0

\* module_reset: a module that was never prepared is left alone
module_reset(S, mret) ==
    IF S.mod.md_state # "IDLE" THEN <<0, S>>
    ELSE IF mret # 0 THEN <<mret, S>>
    ELSE <<0, [S EXCEPT !.mod.md_state = "INITIALIZED"]>>

\* the per-prepare resources module_adapter_reset releases, by mode
ResetRelease(S) ==
    LET S1 == IF IsRaw(S.mod)
              THEN FreeDescData(FreeDescData(S, "out", S.mod.num_of_sinks),
                                "in", S.mod.num_of_sources)
              ELSE S
        S2 == IF IsRaw(S.mod) \/ IsAudioStream(S.mod)
              THEN [FreeDescArrays(S1) EXCEPT !.mod.num_of_sources = 0,
                                              !.mod.num_of_sinks = 0]
              ELSE S1
        S3 == IF IsSinkSource(S.mod) /\ S.dev.proc_domain = "DP"
              THEN FreeQueueList(FreeQueueList(S2, "dp_to_ll"), "ll_to_dp")
              ELSE S2
        S4 == IF IsSinkSource(S.mod)
              THEN [S3 EXCEPT
                      !.mod.sources = [i \in Idx |-> IF i < S3.mod.num_of_sources
                                                     THEN "NULL" ELSE @[i]],
                      !.mod.sinks = [i \in Idx |-> IF i < S3.mod.num_of_sinks
                                                   THEN "NULL" ELSE @[i]],
                      !.mod.num_of_sinks = 0,
                      !.mod.num_of_sources = 0]
              ELSE S3
    IN  S4

\* rfree(mod->stream_params) that leaves the pointer as it was
ResetStreamParamsStale(S) ==
    [S EXCEPT !.heap = Rfree(@, "stream_params", S.mod.stream_params),
              !.ghost.dfree = @ \cup DoubleFree("stream_params", S.mod.stream_params),
              !.mod.stream_params = Freed(@)]

\* rfree(mod->stream_params); mod->stream_params = NULL;
ResetStreamParams(S) ==
    [S EXCEPT !.heap = Rfree(@, "stream_params", S.mod.stream_params),
              !.ghost.dfree = @ \cup DoubleFree("stream_params", S.mod.stream_params),
              !.mod.stream_params = "NULL"]

\* module_adapter_reset.  Returns <<return value, snapshot>>.
module_adapter_reset(S, mret) ==
    LET mr == module_reset(S, mret)
        S1 == ResetRelease(mr[2])
        S2 == [S1 EXCEPT !.mod.total_data_consumed = 0,
                         !.mod.total_data_produced = 0]
        S3 == ResetStreamParams(S2)
        r == comp_set_state(S3.dev.state, "RESET")
    IN  IF mr[1] # 0 THEN <<mr[1], S>>
        ELSE <<r[1], [S3 EXCEPT !.dev.state = r[2]]>>

\* one call of module_adapter_reset; mret is what the module's reset op returns
ResetCall(mret) ==
    /\ dev.alive
    /\ mod.md_state = "IDLE" \/ mret = 0
    /\ LET res == module_adapter_reset(Snap, mret)
       IN  /\ op' = "reset"
           /\ ret' = res[1]
           /\ calls' = {} /\ process_ret' = NoRet
           /\ Commit(res[2])

Reset == Healthy /\ \E mret \in {0, PPL_STATUS_PATH_STOP, -EINVAL} : ResetCall(mret)

-----------------------------------------------------------------------------
\* the intermediate buffers module_adapter_free detaches and frees
FreeSinkBufferList(S) ==
    [S EXCEPT !.heap["local_buffer"] = @ - Len(S.lbuf), !.lbuf = << >>]

\* module_adapter_free
module_adapter_free(S) ==
    LET S1 == FreeSinkBufferList(S)
        S2 == [S1 EXCEPT !.heap = Rfree(Rfree(@, "mod", "live"), "dev", "live")]
    IN  [S2 EXCEPT !.dev = NoDev, !.mod = NoMod]

Free ==
    /\ Healthy
    /\ dev.alive
    /\ dev.state = "READY"
    /\ op' = "free"
    /\ ret' = NoRet
    /\ calls' = {} /\ process_ret' = NoRet
    /\ Commit(module_adapter_free(Snap))

-----------------------------------------------------------------------------
\* Build option: the DP scheduler is compiled in.
CONFIG_ZEPHYR_DP_SCHEDULER == TRUE

MaxQueues == 4      \* DP prepare is explored while at most this many queues exist

\* module_prepare: a module already prepared is not prepared again
module_prepare(S, mret) ==
    IF S.mod.md_state = "IDLE" THEN <<0, S>>
    ELSE IF mret # 0 THEN <<mret, S>>
    ELSE <<0, [S EXCEPT !.mod.md_state = "IDLE"]>>

\* module_adapter_sink_src_prepare
module_adapter_sink_src_prepare(S, mret) ==
    LET S1 == [S EXCEPT
                 !.mod.sinks = [i \in Idx |-> IF i < NSinks THEN "stream" ELSE @[i]],
                 !.mod.num_of_sinks = NSinks,
                 !.mod.sources = [i \in Idx |-> IF i < NSources THEN "stream" ELSE @[i]],
                 !.mod.num_of_sources = NSources]
    IN  module_prepare(S1, mret)

\* dp_queue_create(min_available, min_free_space, mode)
NewQueue == [size |-> Max(PeriodBytes, PeriodBytes), avail |-> 0]

\* time in us the module needs to provide one OBS portion of min_free
\* bytes: 1000000 * min_free, an unsigned 32-bit product that wraps at 2^32,
\* divided by frame_bytes * rate.  Product, 2^32 and divisor are multiples
\* of 64 and the quotient is that of their 64ths: 15625 * min_free, 2^26
\* and frame_bytes * (rate / 64).
SinkPeriod(min_free) ==
    ((15625 * min_free) % 67108864) \div (FrameBytes * (Rate \div 64))

\* the err: label of module_adapter_dp_queue_prepare
DpQueueErr(S) ==
    LET n1 == QueueListLen(S.mod.dp_queue_dp_to_ll_list)
        S1 == [FreeQueueList(S, "dp_to_ll") EXCEPT
                 !.mod.sources = [i \in Idx |-> IF i < n1 THEN "NULL" ELSE @[i]],
                 !.mod.num_of_sources = 0]
        n2 == QueueListLen(S1.mod.dp_queue_ll_to_dp_list)
    IN  [FreeQueueList(S1, "ll_to_dp") EXCEPT
           !.mod.sinks = [i \in Idx |-> IF i < n2 THEN "NULL" ELSE @[i]],
           !.mod.num_of_sinks = 0]

\* module_adapter_dp_queue_prepare.  failq is the ordinal of the
\* dp_queue_create call that fails (one past the last call: none fails).
module_adapter_dp_queue_prepare(S, mret, failq) ==
    LET pr == module_adapter_sink_src_prepare(S, mret)
        S0 == pr[2]
        nsq == Min(failq, NSources)         \* source queues created
        S1 == [S0 EXCEPT
                 !.mod.dp_queue_ll_to_dp_list =
                     [init |-> TRUE, q |-> [i \in 1 .. nsq |-> NewQueue]],
                 !.heap["dp_queue"] = @ + nsq,
                 !.mod.sources = [i \in Idx |-> IF i < nsq THEN "dpq" ELSE @[i]]]
        nkq == Min(failq - NSources, NSinks)    \* sink queues created
        S2 == [S1 EXCEPT
                 !.mod.num_of_sources = NSources,
                 !.mod.dp_queue_dp_to_ll_list =
                     [init |-> TRUE, q |-> [i \in 1 .. nkq |-> NewQueue]],
                 !.heap["dp_queue"] = @ + nkq,
                 !.mod.sinks = [i \in Idx |-> IF i < nkq THEN "dpq" ELSE @[i]]]
        S3 == [S2 EXCEPT
                 !.mod.num_of_sinks = NSinks,
                 !.dev.period = IF @ = 0 THEN SinkPeriod(NewQueue.size) ELSE @]
    IN  IF ~CONFIG_ZEPHYR_DP_SCHEDULER THEN <<-EINVAL, S>>
        ELSE IF pr[1] # 0 THEN pr
        ELSE IF failq < NSources THEN <<-ENOMEM, DpQueueErr(S1)>>
        ELSE IF failq < NSources + NSinks THEN <<-ENOMEM, DpQueueErr(S2)>>
        ELSE <<0, S3>>

\* "Prepare module": the dispatch on processing mode and domain
PrepareModule(S, mret, failq) ==
    IF IsSinkSource(S.mod) /\ S.dev.proc_domain = "DP"
    THEN module_adapter_dp_queue_prepare(S, mret, failq)
    ELSE IF IsSinkSource(S.mod) /\ S.dev.proc_domain = "LL"
    THEN module_adapter_sink_src_prepare(S, mret)
    ELSE IF (IsRaw(S.mod) \/ IsAudioStream(S.mod)) /\ S.dev.proc_domain = "LL"
    THEN module_prepare(S, mret)
    ELSE <<-EINVAL, S>>

\* the deep-buffer heuristic: periods to buffer for a module buffer of
\* size bytes against a period of pb bytes
BuffPeriods(size, pb) ==
    IF size > pb
    THEN IF size % pb # 0 THEN (size \div pb) + 2 ELSE (size \div pb) + 1
    ELSE IF pb % size # 0 THEN (pb \div size) + 2 ELSE (pb \div size) + 1

\* the heuristic applied also when the module's buffer is one period
DeepBuffBytesAlways(in_size, pb) == Min(pb, in_size) * BuffPeriods(in_size, pb)

DeepBuffBytes(in_size, pb) ==
    IF in_size # pb THEN Min(pb, in_size) * BuffPeriods(in_size, pb) ELSE 0

\* the intermediate buffer without the period added for a remainder
LocalBuffSizeNoRemainder(out_size, pb) ==
    Max(pb, out_size) * ((Max(pb, out_size) \div Min(pb, out_size)) + 1)

LocalBuffSize(out_size, pb) == Max(pb, out_size) * BuffPeriods(out_size, pb)

\* module_adapter_check_data: one source and one sink select the 1:1 copy
module_adapter_check_data(S) ==
    [S EXCEPT !.mod.stream_copy_single_to_single =
                  S.mod.ipc4 /\ IsAudioStream(S.mod)
                  /\ S.mod.num_of_sources = 1 /\ S.mod.num_of_sinks = 1]

\* the in_out_free: label
InOutFree(S) ==
    [FreeDescArrays(S) EXCEPT !.mod.output_buffers = "NULL",
                              !.mod.input_buffers = "NULL"]

\* the in_data_free: label
InDataFree(S) == InOutFree(FreeDescData(S, "in", S.mod.num_of_sources))

\* the out_data_free: label
OutDataFree(S) == InDataFree(FreeDescData(S, "out", S.mod.num_of_sinks))

\* the free: label
PrepareFree(S) == OutDataFree(FreeSinkBufferList(S))

\* for each attached buffer: descs[i].data = rballoc(...), the first n succeed
AllocDescData(S, side, n) ==
    LET kind == IF side = "in" THEN "in_data" ELSE "out_data"
        lim == IF side = "in" THEN S.mod.max_sources ELSE S.mod.max_sinks
        set(d) == [i \in Idx |-> IF i < n THEN [d[i] EXCEPT !.data = "live"] ELSE d[i]]
    IN  [S EXCEPT !.heap[kind] = @ + n,
                  !.ghost.oob = @ \/ (n > lim),
                  !.mod.in_desc = IF side = "in" THEN set(@) ELSE @,
                  !.mod.out_desc = IF side = "out" THEN set(@) ELSE @]

\* a failed rballoc stores NULL in the descriptor it was meant for
FailDescData(S, side, i) ==
    LET lim == IF side = "in" THEN S.mod.max_sources ELSE S.mod.max_sinks
    IN  [S EXCEPT !.ghost.oob = @ \/ (i >= lim),
                  !.mod.in_desc[i].data = IF side = "in" THEN "NULL" ELSE @,
                  !.mod.out_desc[i].data = IF side = "out" THEN "NULL" ELSE @]

\* "allocate buffer for all sinks": the first n allocations succeed; each
\* buffer takes its parameters from mod->stream_params (buffer_set_params)
AllocSinkBuffers(S, n, size) ==
    [S EXCEPT !.heap["local_buffer"] = @ + n,
              !.ghost.badptr = @ \/ (n > 0 /\ S.mod.stream_params # "live"),
              !.lbuf = [i \in 1 .. n |-> NewBuf(size, "NONE")]]

\* buffer_set_size + buffer_reset_pos on the first n intermediate buffers
ResizeSinkBuffers(S, n, size) ==
    [S EXCEPT !.ghost.badptr = @ \/ (n > 0 /\ S.mod.stream_params # "live"),
              !.lbuf = [i \in 1 .. Len(S.lbuf) |->
                           IF i <= n THEN NewBuf(size, "NONE") ELSE S.lbuf[i]]]

\* the RAW_DATA part of module_adapter_prepare, from the heuristic on.
\* fail = <<what, i>>: the i-th allocation of that kind fails.
PrepareRaw(S, fail) ==
    LET pb == S.mod.period_bytes
        bsz == LocalBuffSize(S.mod.out_buff_size, pb)
        S1 == [S EXCEPT !.mod.deep_buff_bytes = DeepBuffBytes(S.mod.in_buff_size, pb),
                        !.mod.output_buffer_size = bsz]
        inFail == fail[1] = "in_data" /\ fail[2] < NSources
        S2 == AllocDescData(S1, "in", IF inFail THEN fail[2] ELSE NSources)
        outFail == fail[1] = "out_data" /\ fail[2] < NSinks
        S3 == AllocDescData(S2, "out", IF outFail THEN fail[2] ELSE NSinks)
        n == S3.mod.num_of_sinks
        lFail == fail[1] = "local_buffer"
                 /\ fail[2] < (IF S3.lbuf = << >> THEN n ELSE Len(S3.lbuf))
        S4 == IF S3.lbuf = << >>
              THEN AllocSinkBuffers(S3, IF lFail THEN fail[2] ELSE n, bsz)
              ELSE ResizeSinkBuffers(S3, IF lFail THEN fail[2] ELSE Len(S3.lbuf), bsz)
    IN  IF inFail THEN <<-ENOMEM, InDataFree(FailDescData(S2, "in", fail[2]))>>
        ELSE IF outFail THEN <<-ENOMEM, OutDataFree(FailDescData(S3, "out", fail[2]))>>
        ELSE IF lFail THEN <<-ENOMEM, PrepareFree(S4)>>
        ELSE <<0, S4>>

\* module_adapter_prepare after the lifecycle state was set to PREPARE
PrepareBuffers(S, fail) ==
    LET S1 == [S EXCEPT !.mod.deep_buff_bytes = 0,
                        !.mod.period_bytes = PeriodBytes]
        S2 == [S1 EXCEPT !.mod.num_of_sources = NSources,
                         !.mod.num_of_sinks = NSinks]
        S3 == module_adapter_check_data(S2)
        S4 == [S3 EXCEPT !.heap = Alloc(@, "input_buffers"),
                         !.mod.input_buffers = "live",
                         !.mod.in_desc = ZeroDescs]
        S5 == [S4 EXCEPT !.heap = Alloc(@, "output_buffers"),
                         !.mod.output_buffers = "live",
                         !.mod.out_desc = ZeroDescs]
    IN  IF IsSinkSource(S.mod) THEN <<0, S1>>
        ELSE IF NSources = 0 /\ NSinks = 0 THEN <<-EINVAL, S2>>
        ELSE IF IsAudioStream(S.mod) /\ S.mod.max_sources > 1 /\ S.mod.max_sinks > 1
        THEN <<-EINVAL, S2>>
        ELSE IF fail[1] = "input_buffers"
        THEN <<-ENOMEM, [S3 EXCEPT !.mod.input_buffers = "NULL"]>>
        ELSE IF fail[1] = "output_buffers"
        THEN <<-ENOMEM, InOutFree([S4 EXCEPT !.mod.output_buffers = "NULL"])>>
        ELSE IF ~IsRaw(S.mod) THEN <<0, S5>>
        ELSE PrepareRaw(S5, fail)

\* module_adapter_prepare.  mret: the module's prepare op; failq: the DP
\* queue creation that fails; fail: the allocation that fails.
module_adapter_prepare(S, mret, failq, fail) ==
    LET pm == PrepareModule(S, mret, failq)
        S1 == pm[2]
        r == comp_set_state(S1.dev.state, "PREPARE")
        S2 == [S1 EXCEPT !.dev.state = r[2]]
    IN  IF pm[1] # 0 THEN pm
        ELSE IF S1.dev.state = "ACTIVE" THEN <<PPL_STATUS_PATH_STOP, S1>>
        ELSE IF r[1] < 0 THEN <<r[1], S1>>
        ELSE IF r[1] = COMP_STATUS_STATE_ALREADY_SET THEN <<PPL_STATUS_PATH_STOP, S1>>
        ELSE IF S.dev.type = "HOST" THEN <<0, S2>>
        ELSE PrepareBuffers(S2, fail)

NoFail == <<"none", 0>>

AllocFails ==
    {NoFail, <<"input_buffers", 0>>, <<"output_buffers", 0>>}
    \cup ({"in_data", "out_data", "local_buffer"} \X Idx)

\* the inputs of a prepare that can matter in the state it is called in
PrepareInputs(mret, failq, fail) ==
    /\ mod.md_state = "IDLE" => mret = 0
    /\ failq <= NSources + NSinks
    /\ ~(IsSinkSource(mod) /\ dev.proc_domain = "DP") => failq = NSources + NSinks
    /\ (IsSinkSource(mod) \/ IsEndpoint) => fail = NoFail
    /\ IsAudioStream(mod) => fail[1] \in {"none", "input_buffers", "output_buffers"}
    /\ fail[1] = "in_data" => fail[2] < NSources
    /\ fail[1] \in {"out_data", "local_buffer"} => fail[2] < NSinks

\* one call of module_adapter_prepare
PrepareCall(mret, failq, fail) ==
    /\ dev.alive
    /\ PrepareInputs(mret, failq, fail)
    /\ (IsSinkSource(mod) /\ dev.proc_domain = "DP")
          => heap["dp_queue"] + NSources + NSinks <= MaxQueues
    /\ LET res == module_adapter_prepare(Snap, mret, failq, fail)
       IN  /\ op' = "prepare"
           /\ ret' = res[1]
           /\ calls' = {} /\ process_ret' = NoRet
           /\ Commit(res[2])

Prepare ==
    /\ Healthy
    /\ \E mret \in {0, -EINVAL}, failq \in 0 .. (2 * MaxBufs), fail \in AllocFails :
          PrepareCall(mret, failq, fail)

-----------------------------------------------------------------------------
\* Copy.  Buffers are indexed from 1 in the lists and from 0 in the C arrays.

\* comp_update_buffer_produce on the i-th attached sink buffer
ProduceSink(S, i, n) ==
    IF n = 0 THEN S
    ELSE [S EXCEPT !.bsink[i] = audio_stream_produce(@, n),
                   !.ghost.overrun = @ \/ (n > S.bsink[i].free)]

\* audio_stream_produce on the i-th intermediate buffer
ProduceLocal(S, i, n) ==
    IF n = 0 THEN S
    ELSE [S EXCEPT !.lbuf[i] = audio_stream_produce(@, n),
                   !.ghost.overrun = @ \/ (n > S.lbuf[i].free)]

\* comp_update_buffer_consume on the i-th attached source buffer
ConsumeSource(S, i, n) ==
    IF n = 0 THEN S
    ELSE [S EXCEPT !.bsource[i] = audio_stream_consume(@, n),
                   !.ghost.underrun = @ \/ (n > S.bsource[i].avail)]

\* comp_update_buffer_consume on the i-th intermediate buffer
ConsumeLocal(S, i, n) ==
    IF n = 0 THEN S
    ELSE [S EXCEPT !.lbuf[i] = audio_stream_consume(@, n),
                   !.ghost.underrun = @ \/ (n > S.lbuf[i].avail)]

\* generate_zeroes taking the period out of the intermediate buffer
generate_zeroes_draining(S, i, bytes) ==
    ConsumeLocal(ProduceSink(S, i, bytes), i, Min(bytes, S.lbuf[i].avail))

\* generate_zeroes(sink, bytes): the loop stores nothing and there is no
\* buffer_stream_writeback before the write position moves
generate_zeroes(S, i, bytes) ==
    [ProduceSink(S, i, bytes) EXCEPT !.ghost.dirty = @ \/ (bytes > 0)]

\* module_copy_samples leaving the warm-up as soon as the intermediate
\* buffer holds deep_buff_bytes
module_copy_samples_at_threshold(S, i, produced) ==
    LET m == S.mod
        src == S.lbuf[i]
        sink == S.bsink[i]
        deep == m.deep_buff_bytes # 0
        S1 == [S EXCEPT !.mod.deep_buff_bytes = 0]
        skip == ~deep /\ produced = 0 /\ src.avail < m.period_bytes
        copy_bytes == audio_stream_avail_frames_aligned(src, sink) * FrameBytes
        S2 == [S1 EXCEPT !.ghost.badptr = @ \/ (m.stream_params # "live")]
    IN  IF deep /\ m.deep_buff_bytes > src.avail
        THEN generate_zeroes(S, i, m.period_bytes)
        ELSE IF skip \/ copy_bytes = 0 THEN S1
        ELSE ConsumeLocal(ProduceSink(S2, i, copy_bytes), i, copy_bytes)

\* module_copy_samples(dev, src_buffer = lbuf[i], sink_buffer = bsink[i], produced)
module_copy_samples(S, i, produced) ==
    LET m == S.mod
        src == S.lbuf[i]
        sink == S.bsink[i]
        deep == m.deep_buff_bytes # 0
        S1 == [S EXCEPT !.mod.deep_buff_bytes = 0]
        skip == ~deep /\ produced = 0 /\ src.avail < m.period_bytes
        copy_bytes == audio_stream_avail_frames_aligned(src, sink) * FrameBytes
        S2 == [S1 EXCEPT !.ghost.badptr = @ \/ (m.stream_params # "live")]
    IN  IF deep /\ m.deep_buff_bytes >= src.avail
        THEN generate_zeroes(S, i, m.period_bytes)
        ELSE IF skip \/ copy_bytes = 0 THEN S1
        ELSE ConsumeLocal(ProduceSink(S2, i, copy_bytes), i, copy_bytes)

\* first loop of module_adapter_process_output: scratch to intermediate buffer
RECURSIVE OutputToLocal(_, _)
OutputToLocal(S, i) ==
    IF i > Len(S.lbuf) THEN S
    ELSE LET sz == S.mod.out_desc[i - 1].size
             S1 == [S EXCEPT !.ghost.oob = @ \/ (i - 1 >= S.mod.max_sinks)]
         IN  OutputToLocal(ProduceLocal(S1, i, sz), i + 1)

\* second loop: intermediate buffer to the attached sink with the same index
RECURSIVE LocalToSinks(_, _)
LocalToSinks(S, i) ==
    IF i > Len(S.bsink) THEN S
    ELSE IF i > Len(S.lbuf) THEN LocalToSinks(S, i + 1)
    ELSE LET S1 == module_copy_samples(S, i, S.mod.out_desc[i - 1].size)
             S2 == [S1 EXCEPT !.mod.out_desc[i - 1].size = 0,
                              !.ghost.oob = @ \/ (i - 1 >= S.mod.max_sinks)]
         IN  LocalToSinks(S2, i + 1)

\* module_adapter_process_output
module_adapter_process_output(S) ==
    LET S1 == LocalToSinks(OutputToLocal(S, 1), 1)
    IN  [S1 EXCEPT !.mod.total_data_produced = @ + S1.mod.out_desc[0].size]

\* What a hosted module does in one process call on nin input and nout output
\* descriptors.  pret is its return value; on an error it moves nothing.
\* AUDIO_STREAM: sizes are frames in, bytes out; it handles the same number
\* of frames on every pin, never more than an input offers or a sink holds.
ProcessAudioStream(S, nin, nout, pret, want) ==
    LET ins == {i \in Idx : i < nin}
        outs == {j \in Idx : j < nout}
        offer == {S.mod.in_desc[i].size : i \in ins}
                 \cup {audio_stream_get_free_frames(S.bsink[j + 1]) : j \in outs}
        k == IF pret # 0 \/ offer = {} THEN 0
             ELSE Min(want, CHOOSE x \in offer : \A y \in offer : x <= y)
    IN  [S EXCEPT
           !.mod.in_desc = [i \in Idx |-> IF i \in ins
                                          THEN [@[i] EXCEPT !.consumed = k * FrameBytes]
                                          ELSE @[i]],
           !.mod.out_desc = [j \in Idx |-> IF j \in outs
                                           THEN [@[j] EXCEPT !.size = k * FrameBytes]
                                           ELSE @[j]]]

\* RAW_DATA: sizes are bytes; it consumes up to want bytes of every input
\* and, when it consumed something, produces give bytes on every output.
ProcessRawData(S, nin, nout, pret, want, give) ==
    LET ins == {i \in Idx : i < nin}
        outs == {j \in Idx : j < nout}
        took(i) == IF pret # 0 THEN 0 ELSE Min(want, S.mod.in_desc[i].size)
        any == \E i \in ins : took(i) > 0
        out == IF any THEN Min(give, S.mod.out_buff_size) ELSE 0
    IN  [S EXCEPT
           !.mod.in_desc = [i \in Idx |-> IF i \in ins
                                          THEN [@[i] EXCEPT !.consumed = took(i)]
                                          ELSE @[i]],
           !.mod.out_desc = [j \in Idx |-> IF j \in outs
                                           THEN [@[j] EXCEPT !.size = out]
                                           ELSE @[j]]]

\* module_adapter_audio_stream_copy_1to1
module_adapter_audio_stream_copy_1to1(S, pret, want) ==
    LET src == S.bsource[1]
        sink == S.bsink[1]
        frames == audio_stream_avail_frames_aligned(src, sink)
        S1 == [S EXCEPT !.mod.in_desc[0] = [size |-> frames, consumed |-> 0,
                                            data |-> "stream"],
                        !.mod.out_desc[0] = [@ EXCEPT !.size = 0, !.data = "stream"]]
        nout == IF sink.peer = S.dev.state THEN 1 ELSE 0
        S2 == ProcessAudioStream(S1, 1, nout, pret, want)
        S3 == [S2 EXCEPT !.mod.total_data_consumed = @ + S2.mod.in_desc[0].consumed]
        S4 == ConsumeSource(S3, 1, S3.mod.in_desc[0].consumed)
        S5 == [S4 EXCEPT !.mod.total_data_produced = @ + S4.mod.out_desc[0].size]
    IN  <<pret, ProduceSink(S5, 1, S5.mod.out_desc[0].size)>>

\* module_single_sink_setup
module_single_sink_setup(S) ==
    [S EXCEPT
       !.mod.in_desc = [i \in Idx |->
            IF i < Len(S.bsource)
            THEN [size |-> audio_stream_avail_frames_aligned(S.bsource[i + 1], S.bsink[1]),
                  consumed |-> 0, data |-> "stream"]
            ELSE @[i]],
       !.mod.out_desc[0] = [@ EXCEPT !.size = 0, !.data = "stream"]]

\* module_single_source_setup
module_single_source_setup(S) ==
    LET fr == {audio_stream_avail_frames_aligned(S.bsource[1], S.bsink[j]) :
                   j \in 1 .. Len(S.bsink)}
        min_frames == CHOOSE x \in fr : \A y \in fr : x <= y
    IN  [S EXCEPT
           !.mod.out_desc = [j \in Idx |-> IF j < Len(S.bsink)
                                           THEN [@[j] EXCEPT !.size = 0, !.data = "stream"]
                                           ELSE @[j]],
           !.mod.in_desc[0] = [size |-> min_frames, consumed |-> 0, data |-> "stream"]]

\* release loops that also let go of the input descriptor array
ClearDescsAndFree(S, nin, nout) ==
    [S EXCEPT !.heap.input_buffers = 0, !.mod.input_buffers = "freed"]

\* "release" loops: clear the per-iteration fields of the first nin input
\* and nout output descriptors
ClearDescs(S, nin, nout) ==
    [S EXCEPT
       !.mod.in_desc = [i \in Idx |-> IF i < nin
                                      THEN [@[i] EXCEPT !.size = 0, !.consumed = 0]
                                      ELSE @[i]],
       !.mod.out_desc = [j \in Idx |-> IF j < nout THEN [@[j] EXCEPT !.size = 0]
                                       ELSE @[j]]]

RECURSIVE ConsumeInputs(_, _, _)
ConsumeInputs(S, i, nin) ==
    IF i > nin THEN S
    ELSE ConsumeSource(ConsumeInputs(S, i + 1, nin), i, S.mod.in_desc[i - 1].consumed)

RECURSIVE ProduceOutputs(_, _, _)
ProduceOutputs(S, j, nout) ==
    IF j > nout THEN S
    ELSE ProduceSink(ProduceOutputs(S, j + 1, nout), j, S.mod.out_desc[j - 1].size)

\* a flow-control return handed upward as PATH_STOP
FlowControlAsPathStop(r) ==
    IF r = -ENOSPC \/ r = -ENODATA THEN PPL_STATUS_PATH_STOP ELSE r

\* what a flow-control return of the module's process becomes
SwallowFlowControl(r) == IF r = -ENOSPC \/ r = -ENODATA THEN 0 ELSE r

\* module_adapter_audio_stream_type_copy, after the endpoint and 1:1 cases
AudioStreamFanCopy(S, pret, want) ==
    LET nk == Len(S.bsink)
        ns == Len(S.bsource)
        oneSink == nk = 1
        oneSource == ns = 1
        S1 == IF oneSink THEN module_single_sink_setup(S)
              ELSE module_single_source_setup(S)
        nout == IF oneSink /\ S.bsink[1].peer # S.dev.state THEN 0 ELSE nk
        nin == IF ~oneSink /\ oneSource /\ S.bsource[1].peer # S.dev.state
               THEN 0 ELSE ns
        S2 == ProcessAudioStream(S1, nin, nout, pret, want)
        r == SwallowFlowControl(pret)
        S3 == ConsumeInputs(S2, 1, nin)
        S4 == [S3 EXCEPT !.mod.total_data_consumed = @ + S3.mod.in_desc[0].consumed]
        S5 == ClearDescs(S4, nin, 0)
        S6 == ProduceOutputs(S5, 1, nout)
        S7 == [S6 EXCEPT !.mod.total_data_produced = @ + S6.mod.out_desc[0].size]
    IN  IF nk > S.mod.max_sinks \/ ns > S.mod.max_sources THEN <<-EINVAL, S>>
        ELSE IF ~oneSink /\ ~oneSource THEN <<-EINVAL, ClearDescs(S, ns, nk)>>
        ELSE IF r # 0 THEN <<r, ClearDescs(S2, nin, nout)>>
        ELSE <<0, ClearDescs(S7, 0, nout)>>

\* module_adapter_audio_stream_type_copy
module_adapter_audio_stream_type_copy(S, pret, want) ==
    IF S.dev.type = "HOST" THEN <<pret, S>>
    ELSE IF S.mod.stream_copy_single_to_single
    THEN module_adapter_audio_stream_copy_1to1(S, pret, want)
    ELSE AudioStreamFanCopy(S, pret, want)

\* the cap without the source's available frames
CapByMinFreeFramesOnly(S, frames) ==
    LET fr == {audio_stream_get_free_frames(S.lbuf[j]) : j \in 1 .. Len(S.lbuf)}
    IN  IF fr = {} THEN frames
        ELSE CHOOSE x \in fr : \A y \in fr : x <= y

\* MIN(min_free_frames, frames): min_free_frames is the minimum over the
\* intermediate buffers of their free frames, UINT_MAX when there is none
CapByMinFreeFrames(S, frames) ==
    LET fr == {audio_stream_get_free_frames(S.lbuf[j]) : j \in 1 .. Len(S.lbuf)}
    IN  IF fr = {} THEN frames
        ELSE Min(CHOOSE x \in fr : \A y \in fr : x <= y, frames)

\* "copy source samples into input buffer": source s of the list fills
\* descriptor i; a source whose producer is absent or in another state is
\* passed over without advancing i.
RECURSIVE RawFillInputs(_, _, _)
RawFillInputs(S, s, i) ==
    IF s > Len(S.bsource) THEN S
    ELSE IF S.bsource[s].peer # S.dev.state THEN RawFillInputs(S, s + 1, i)
    ELSE LET frames == CapByMinFreeFrames(S, audio_stream_get_avail_frames(S.bsource[s]))
             bytes_to_process == Min(frames * FrameBytes, S.mod.in_buff_size)
             S1 == [S EXCEPT !.mod.in_desc[i] = [@ EXCEPT !.size = bytes_to_process,
                                                          !.consumed = 0],
                             !.ghost.oob = @ \/ (i >= S.mod.max_sources)]
         IN  RawFillInputs(S1, s + 1, i + 1)

\* "consume from all input buffers": source s of the list is consumed by
\* what descriptor s reports
RECURSIVE RawConsumeInputs(_, _)
RawConsumeInputs(S, s) ==
    IF s > Len(S.bsource) THEN S
    ELSE LET S1 == ConsumeSource(S, s, S.mod.in_desc[s - 1].consumed)
             S2 == [S1 EXCEPT !.mod.in_desc[s - 1] = [@ EXCEPT !.size = 0, !.consumed = 0],
                              !.ghost.oob = @ \/ (s - 1 >= S.mod.max_sources)]
         IN  RawConsumeInputs(S2, s + 1)

\* module_adapter_raw_data_type_copy
module_adapter_raw_data_type_copy(S, pret, want, give) ==
    LET S1 == RawFillInputs(S, 1, 0)
        S2 == ProcessRawData(S1, S.mod.num_of_sources, S.mod.num_of_sinks,
                             pret, want, give)
        r == SwallowFlowControl(pret)
        S3 == RawConsumeInputs(S2, 1)
        S4 == [S3 EXCEPT !.mod.total_data_consumed = @ + S3.mod.in_desc[0].consumed]
    IN  IF r # 0
        THEN <<r, ClearDescs(S2, S.mod.num_of_sources, S.mod.num_of_sinks)>>
        ELSE <<0, module_adapter_process_output(S4)>>

\* module_process_sink_src on the attached streams (LL): the module moves up
\* to want bytes out of every source and into every sink through the
\* source/sink API, which never hands out more than is there.
ProcessSinkSource(S, pret, want) ==
    LET nsrc == S.mod.num_of_sources
        nsnk == S.mod.num_of_sinks
        took(i) == IF pret # 0 THEN 0 ELSE Min(want, S.bsource[i].avail)
        gave(j) == IF pret # 0 THEN 0 ELSE Min(want, S.bsink[j].free)
        sumIn == IF nsrc = 0 THEN 0 ELSE IF nsrc = 1 THEN took(1)
                 ELSE took(1) + took(2) + (IF nsrc > 2 THEN took(3) ELSE 0)
        sumOut == IF nsnk = 0 THEN 0 ELSE IF nsnk = 1 THEN gave(1)
                  ELSE gave(1) + gave(2) + (IF nsnk > 2 THEN gave(3) ELSE 0)
    IN  [S EXCEPT
           !.bsource = [i \in 1 .. Len(S.bsource) |->
                           IF i <= nsrc THEN audio_stream_consume(@[i], took(i)) ELSE @[i]],
           !.bsink = [j \in 1 .. Len(S.bsink) |->
                         IF j <= nsnk THEN audio_stream_produce(@[j], gave(j)) ELSE @[j]],
           !.mod.total_data_consumed = @ + sumIn,
           !.mod.total_data_produced = @ + sumOut]

\* module_adapter_sink_source_copy
module_adapter_sink_source_copy(S, pret, want) ==
    <<pret, ProcessSinkSource(S, pret, want)>>

\* module_adapter_copy_dp_queues pairing every buffer with the first queue
module_adapter_copy_dp_queues_first(S) ==
    LET inq == S.mod.dp_queue_ll_to_dp_list.q
        outq == S.mod.dp_queue_dp_to_ll_list.q
        tin == Min(inq[1].size - inq[1].avail, S.bsource[1].avail)
        tout == Min(S.bsink[1].free, outq[1].avail)
    IN  <<0, [S EXCEPT
                !.bsource[1] = audio_stream_consume(@, tin),
                !.mod.dp_queue_ll_to_dp_list.q[1].avail = @ + tin,
                !.bsink[1] = audio_stream_produce(@, tout),
                !.mod.dp_queue_dp_to_ll_list.q[1].avail = @ - tout]>>

\* module_adapter_copy_dp_queues: shuttle bytes between the attached buffers
\* and the DP queues paired with them by position
module_adapter_copy_dp_queues(S) ==
    LET inq == S.mod.dp_queue_ll_to_dp_list.q
        outq == S.mod.dp_queue_dp_to_ll_list.q
        tin(i) == Min(inq[i].size - inq[i].avail, S.bsource[i].avail)
        tout(j) == Min(S.bsink[j].free, outq[j].avail)
    IN  IF ~CONFIG_ZEPHYR_DP_SCHEDULER THEN <<-EINVAL, S>>
        ELSE IF QueueListLen(S.mod.dp_queue_ll_to_dp_list) < Len(S.bsource)
                \/ QueueListLen(S.mod.dp_queue_dp_to_ll_list) < Len(S.bsink)
        THEN <<NoRet, [S EXCEPT !.ghost.badptr = TRUE]>>
        ELSE <<0, [S EXCEPT
                !.bsource = [i \in 1 .. Len(S.bsource) |->
                                audio_stream_consume(@[i], tin(i))],
                !.mod.dp_queue_ll_to_dp_list.q =
                    [i \in 1 .. Len(inq) |->
                        IF i <= Len(S.bsource)
                        THEN [inq[i] EXCEPT !.avail = @ + tin(i)] ELSE inq[i]],
                !.bsink = [j \in 1 .. Len(S.bsink) |->
                              audio_stream_produce(@[j], tout(j))],
                !.mod.dp_queue_dp_to_ll_list.q =
                    [j \in 1 .. Len(outq) |->
                        IF j <= Len(S.bsink)
                        THEN [outq[j] EXCEPT !.avail = @ - tout(j)] ELSE outq[j]]]>>

\* the descriptor arrays a copy in AUDIO_STREAM or RAW_DATA mode reads
DescArraysLive(S) == S.mod.input_buffers = "live" /\ S.mod.output_buffers = "live"

\* module_adapter_copy.  Returns <<return value, snapshot, entry points>>.
module_adapter_copy(S, pret, want, give) ==
    LET as == module_adapter_audio_stream_type_copy(S, pret, want)
        raw == module_adapter_raw_data_type_copy(S, pret, want, give)
        ss == module_adapter_sink_source_copy(S, pret, want)
        dp == module_adapter_copy_dp_queues(S)
        crash == <<NoRet, [S EXCEPT !.ghost.badptr = TRUE], {}>>
    IN  IF IsAudioStream(S.mod) /\ S.dev.type = "HOST"
        THEN <<as[1], as[2], {"endpoint_process"}>>
        ELSE IF IsAudioStream(S.mod)
        THEN IF ~DescArraysLive(S) THEN crash
             ELSE IF ~S.mod.stream_copy_single_to_single
                     /\ (Len(S.bsink) > S.mod.max_sinks \/ Len(S.bsource) > S.mod.max_sources
                         \/ (Len(S.bsink) # 1 /\ Len(S.bsource) # 1))
             THEN <<as[1], as[2], {}>>
             ELSE <<as[1], as[2], {"process"}>>
        ELSE IF IsRaw(S.mod)
        THEN IF ~DescArraysLive(S) THEN crash
             ELSE <<raw[1], raw[2], {"process"}>>
        ELSE IF S.dev.proc_domain = "DP" THEN <<dp[1], dp[2], {}>>
        ELSE <<ss[1], ss[2], {"process"}>>

ProcRets == {0, -ENOSPC, -ENODATA, -EINVAL}

\* the inputs of a copy that can matter: a module that fails moves nothing,
\* only RAW_DATA modules report bytes produced apart from bytes consumed
CopyInputs(pret, want, give) ==
    /\ pret # 0 => want = 0
    /\ (want = 0 \/ ~IsRaw(mod)) => give = 0
    /\ (IsSinkSource(mod) /\ dev.proc_domain = "DP") => (pret = 0 /\ want = 0)

\* one call of module_adapter_copy
CopyCall(pret, want, give) ==
    /\ dev.alive
    /\ dev.state = "ACTIVE"
    /\ mod.total_data_consumed < MaxTotal
    /\ mod.total_data_produced < MaxTotal
    /\ CopyInputs(pret, want, give)
    /\ LET res == module_adapter_copy(Snap, pret, want, give)
       IN  /\ op' = "copy"
           /\ ret' = res[1]
           /\ calls' = res[3]
           /\ process_ret' = IF res[3] # {} THEN pret ELSE NoRet
           /\ Commit(res[2])

Copy ==
    /\ Healthy
    /\ \E pret \in ProcRets, want \in 0 .. Frames, give \in 0 .. Frames :
          CopyCall(pret, want, give)

\* The DP task of a SINK_SOURCE module in the DP domain: the module's
\* process runs on the DP queue endpoints.
DpTask ==
    \E want \in 1 .. Frames :
        LET inq == mod.dp_queue_ll_to_dp_list.q
            outq == mod.dp_queue_dp_to_ll_list.q
        IN  /\ Healthy
            /\ dev.alive
            /\ dev.state = "ACTIVE"
            /\ IsSinkSource(mod) /\ dev.proc_domain = "DP"
            /\ mod.dp_queue_ll_to_dp_list.init /\ mod.dp_queue_dp_to_ll_list.init
            /\ \E i \in 1 .. Len(inq) : inq[i].avail > 0
            /\ mod' = [mod EXCEPT
                 !.dp_queue_ll_to_dp_list.q =
                     [i \in 1 .. Len(inq) |->
                         [inq[i] EXCEPT !.avail = @ - Min(want, @)]],
                 !.dp_queue_dp_to_ll_list.q =
                     [j \in 1 .. Len(outq) |->
                         [outq[j] EXCEPT !.avail = @ + Min(want, outq[j].size - @)]]]
            /\ op' = "dp_task"
            /\ ret' = 0
            /\ calls' = {"process"} /\ process_ret' = 0
            /\ UNCHANGED <<aside, config, dev, heap, bsource, bsink, lbuf, ghost>>

-----------------------------------------------------------------------------
\* The rest of the pipeline.

\* the component upstream writes one period into an attached source buffer
UpstreamProduce ==
    \E i \in 1 .. Len(bsource), n \in {PeriodBytes} :
        /\ Healthy
        /\ n <= bsource[i].free
        /\ bsource' = [bsource EXCEPT ![i] = audio_stream_produce(@, n)]
        /\ op' = "env"
        /\ ret' = 0
        /\ calls' = {} /\ process_ret' = NoRet
        /\ UNCHANGED <<aside, config, dev, mod, heap, bsink, lbuf, ghost>>

\* the component downstream reads one period from an attached sink buffer
DownstreamConsume ==
    \E j \in 1 .. Len(bsink), n \in {PeriodBytes} :
        /\ Healthy
        /\ n <= bsink[j].avail
        /\ bsink' = [bsink EXCEPT ![j] = audio_stream_consume(@, n)]
        /\ op' = "env"
        /\ ret' = 0
        /\ calls' = {} /\ process_ret' = NoRet
        /\ UNCHANGED <<aside, config, dev, mod, heap, bsource, lbuf, ghost>>

\* a neighbouring component changes its lifecycle state
PeerStates == {"ACTIVE", "PREPARE"}

PeerTrigger ==
    /\ Healthy
    /\ \/ \E i \in 1 .. Len(bsource), st \in PeerStates :
            /\ bsource[i].peer # st
            /\ bsource' = [bsource EXCEPT ![i].peer = st]
            /\ UNCHANGED bsink
       \/ \E j \in 1 .. Len(bsink), st \in PeerStates :
            /\ bsink[j].peer # st
            /\ bsink' = [bsink EXCEPT ![j].peer = st]
            /\ UNCHANGED bsource
    /\ op' = "env"
    /\ ret' = 0
    /\ calls' = {} /\ process_ret' = NoRet
    /\ UNCHANGED <<aside, config, dev, mod, heap, lbuf, ghost>>

\* The lifecycle of one component, with nothing else of the pipeline running.
Next ==
    \/ New
    \/ Params
    \/ Prepare
    \/ Trigger
    \/ Copy
    \/ DpTask
    \/ Reset
    \/ Free

\* Configurations the lifecycle is explored for.
LifeCfgs ==
    {c \in ModuleCfgs :
        /\ c.in_buff_size = 1 /\ c.out_buff_size = 2
        /\ c.max_sources = 1 /\ c.max_sinks = 1
        /\ c.proc_domain = "DP" => c.mode = "SINK_SOURCE"
        /\ c.type = "HOST" => (~c.no_pause /\ ~c.has_trigger)
        /\ c.mode # "AUDIO_STREAM" => ~c.ipc4}

Init == InitWith(LifeCfgs, {1}, {1})

Spec == Init /\ [][Next]_vars

-----------------------------------------------------------------------------
\* C1: the lifecycle state changes only along the table's transitions:
\* prepare READY -> PREPARE; trigger(START) PREPARE or PAUSED -> ACTIVE
\* (RELEASE, the resume of section 4.1, PAUSED -> ACTIVE); trigger(PAUSE)
\* ACTIVE -> PAUSED; trigger(STOP) ACTIVE or PAUSED -> PREPARE; reset from any
\* post-READY state -> READY.  No operation changes the state otherwise.
C1_LifecycleTable ==
    [][(dev.alive /\ dev'.alive /\ dev'.state # dev.state) =>
          \/ op' = "prepare" /\ dev.state = "READY" /\ dev'.state = "PREPARE"
          \/ /\ \E m \in {0, -EINVAL} : module_adapter_trigger("START", m)
             /\ dev.state \in {"PREPARE", "PAUSED"} /\ dev'.state = "ACTIVE"
          \/ /\ \E m \in {0, -EINVAL} : module_adapter_trigger("RELEASE", m)
             /\ dev.state = "PAUSED" /\ dev'.state = "ACTIVE"
          \/ /\ \E m \in {0, -EINVAL} : module_adapter_trigger("PAUSE", m)
             /\ dev.state = "ACTIVE" /\ dev'.state = "PAUSED"
          \/ /\ \E m \in {0, -EINVAL} : module_adapter_trigger("STOP", m)
             /\ dev.state \in {"ACTIVE", "PAUSED"} /\ dev'.state = "PREPARE"
          \/ op' = "reset" /\ dev.state # "READY" /\ dev'.state = "READY"]_vars

\* C2: module_adapter_new returns a component in state READY when no step
\* of it fails; in every other case it returns NULL and the component and
\* the module structure it allocated are free again.
C2_NewOutcome ==
    [][\A fail \in NewFails :
          module_adapter_new(config, fail) =>
              IF fail = "none"
              THEN ret' = 0 /\ dev'.alive /\ dev'.state = "READY"
                   /\ heap'["dev"] = 1 /\ heap'["mod"] = 1
              ELSE ret' = -1 /\ ~dev'.alive /\ heap' = EmptyHeap]_vars

\* a failed module_adapter_new has returned
C2_Witness == op = "new" /\ ret = -1 /\ ~dev.alive /\ heap = EmptyHeap

\* C3: on a non-endpoint component whose module has no_pause, trigger(PAUSE)
\* in ACTIVE leaves the state ACTIVE and returns PATH_STOP, and neither the
\* module's trigger op nor the state setter is called.
C3_NoPauseStaysActive ==
    [][\A m \in {0, -EINVAL} :
          (module_adapter_trigger("PAUSE", m) /\ ~IsEndpoint /\ mod.no_pause
           /\ dev.state = "ACTIVE")
              => /\ dev'.state = "ACTIVE"
                 /\ ret' = PPL_STATUS_PATH_STOP
                 /\ calls' = {}]_vars

\* the shortcut was taken by a component that has copied
C3_Witness ==
    /\ op = "trigger" /\ ret = PPL_STATUS_PATH_STOP /\ calls = {}
    /\ dev.state = "ACTIVE" /\ mod.no_pause /\ ~IsEndpoint
    /\ mod.has_trigger
    /\ mod.total_data_consumed > 0

C5_PrepareTwice ==
    [][\A mret \in {0, -EINVAL}, failq \in 0 .. (2 * MaxBufs), fail \in AllocFails :
          (PrepareCall(mret, failq, fail) /\ op = "prepare" /\ ret = 0
           /\ dev.state = "PREPARE")
              => /\ ret' = PPL_STATUS_PATH_STOP
                 /\ dev'.state = dev.state
                 /\ mod'.md_state = mod.md_state
                 /\ mod'.sources = mod.sources /\ mod'.sinks = mod.sinks
                 /\ mod'.dp_queue_ll_to_dp_list = mod.dp_queue_ll_to_dp_list
                 /\ mod'.dp_queue_dp_to_ll_list = mod.dp_queue_dp_to_ll_list
                 /\ heap' = heap]_vars

\* C6: a second module_adapter_reset right after a first leaves the
\* component as the first did (state READY, byte counters zero, no stream
\* parameters, no sources or sinks) and releases no block a second time.
C6_ResetTwice ==
    [][\A mret \in {0, PPL_STATUS_PATH_STOP, -EINVAL} :
          (ResetCall(mret) /\ op = "reset" /\ ret = 0 /\ dev.state = "READY")
              => /\ dev'.state = "READY"
                 /\ mod'.total_data_consumed = 0 /\ mod'.total_data_produced = 0
                 /\ mod'.stream_params = "NULL"
                 /\ mod'.num_of_sources = 0 /\ mod'.num_of_sinks = 0
                 /\ ghost'.dfree = {}]_vars

\* C7: after module_adapter_free no block the adapter allocated for the
\* component is still allocated.
C7_FreeReleasesAll == op = "free" => heap = EmptyHeap

\* C8: in every mode that calls the module's process, a process return of
\* -ENOSPC or -ENODATA makes module_adapter_copy return no negative value
\* and leaves size and consumed of the descriptors cleared.
C8_FlowControlNotFatal ==
    [][\A pret \in {-ENOSPC, -ENODATA} :
          (CopyCall(pret, 0, 0) /\ calls' = {"process"})
              => /\ ret' >= 0
                 /\ \A i \in Idx : /\ mod'.in_desc[i].size = 0
                                   /\ mod'.in_desc[i].consumed = 0
                                   /\ mod'.out_desc[i].size = 0]_vars

C10_BuffersConsistent ==
    /\ \A i \in 1 .. Len(bsource) :
          /\ bsource[i].avail + bsource[i].free = bsource[i].size
          /\ bsource[i].r \in 0 .. (bsource[i].size - 1)
          /\ bsource[i].w \in 0 .. (bsource[i].size - 1)
    /\ \A i \in 1 .. Len(bsink) :
          /\ bsink[i].avail + bsink[i].free = bsink[i].size
          /\ bsink[i].r \in 0 .. (bsink[i].size - 1)
          /\ bsink[i].w \in 0 .. (bsink[i].size - 1)
    /\ \A i \in 1 .. Len(lbuf) :
          /\ lbuf[i].avail + lbuf[i].free = lbuf[i].size
          /\ lbuf[i].r \in 0 .. (lbuf[i].size - 1)
          /\ lbuf[i].w \in 0 .. (lbuf[i].size - 1)
    /\ op = "copy" => ~ghost.overrun /\ ~ghost.underrun

-----------------------------------------------------------------------------
\* A component that is brought up with no failure injected (allocations
\* succeed, the module's operations return 0) and then streams while its
\* neighbours run.
Bringup ==
    \/ Healthy /\ module_adapter_new(config, "none")
    \/ Healthy /\ dev.alive /\ dev.state = "READY" /\ mod.stream_params = "NULL"
       /\ module_adapter_params(0, FALSE)
    \/ Healthy /\ dev.alive /\ dev.state = "READY" /\ mod.stream_params = "live"
       /\ PrepareCall(0, NSources + NSinks, NoFail)
    \/ Healthy /\ dev.alive /\ dev.state = "PREPARE" /\ ret = 0
       /\ module_adapter_trigger("START", 0)

NextCopy ==
    \/ Bringup
    \/ Copy
    \/ DpTask
    \/ UpstreamProduce
    \/ DownstreamConsume
    \/ PeerTrigger

\* Configurations streaming is explored for: every mode, one buffer on
\* one side at least.
CopyCfgs ==
    {c \in ModuleCfgs :
        /\ c.type = "MODULE" /\ ~c.no_pause /\ ~c.has_trigger
        /\ c.in_buff_size = 1 /\ c.out_buff_size = 2
        /\ c.max_sources = 1 \/ c.max_sinks = 1
        /\ (c.mode # "AUDIO_STREAM" \/ c.ipc4) => (c.max_sources = 1 /\ c.max_sinks = 1)
        /\ c.proc_domain = "DP" => c.mode = "SINK_SOURCE"
        /\ c.mode # "AUDIO_STREAM" => ~c.ipc4}

InitCopy ==
    \E c \in CopyCfgs : InitWith({c}, 1 .. c.max_sources, 1 .. c.max_sinks)

SpecCopy == InitCopy /\ [][NextCopy]_vars

-----------------------------------------------------------------------------
\* Deep buffering (RAW_DATA), checked under SpecCopy

\* a RAW_DATA component whose prepare chose a warm-up; a step of
\* module_adapter_copy is the one that leaves op at "copy"
DeepBuffered == IsRaw(mod) /\ DeepBuffBytes(mod.in_buff_size, mod.period_bytes) > 0

\* bytes the first sink gained in the step
Delivered == bsink'[1].avail - bsink[1].avail

\* bytes of processed data the first intermediate buffer held when
\* module_copy_samples looked at it
Gathered == lbuf'[1].avail + Delivered

C13_WarmUpKeepsSources ==
    [][(op' = "copy" /\ DeepBuffered /\ mod.deep_buff_bytes > 0
         /\ mod'.deep_buff_bytes > 0
         /\ \A i \in 1 .. Len(bsource) : bsource[i].avail < mod.deep_buff_bytes)
          => \A i \in 1 .. Len(bsource) : bsource'[i].r = bsource[i].r]_vars

\* C13 (amended): a RAW_DATA copy pass that stays in the warm-up takes
\* nothing out of the intermediate sink buffers, whose read positions stay
\* and whose fill never shrinks; the attached source buffers are consumed as
\* in any other pass, by at most in_buff_size bytes each.
C13_WarmUpKeepsGathered ==
    [][(op' = "copy" /\ DeepBuffered /\ mod.deep_buff_bytes > 0
         /\ mod'.deep_buff_bytes > 0)
          => /\ \A i \in 1 .. Len(lbuf) :
                   lbuf'[i].r = lbuf[i].r /\ lbuf'[i].avail >= lbuf[i].avail
             /\ \A i \in 1 .. Len(bsource) :
                   /\ bsource[i].avail - bsource'[i].avail
                          \in 0 .. Min(mod.in_buff_size, bsource[i].avail)
                   /\ bsource'[i].r
                          = (bsource[i].r + bsource[i].avail - bsource'[i].avail)
                                % bsource[i].size]_vars

\* a pass of the warm-up has consumed input and gathered processed data
C13_Witness ==
    /\ op = "copy" /\ ret = 0 /\ calls = {"process"}
    /\ DeepBuffered /\ mod.deep_buff_bytes > 0
    /\ lbuf[1].avail > 0
    /\ bsource[1].r # 0
    /\ bsink[1].avail > 0

\* every attached source buffer is empty
SourcesEmpty == Len(bsource) > 0 /\ \A i \in 1 .. Len(bsource) : bsource[i].avail = 0

\* C14 (as stated): a copy pass with every source buffer empty produces
\* nothing into any sink and advances no position of any attached buffer,
\* in every mode, deep buffering or not.
C14_EmptyInputMovesNothing ==
    [][(op' = "copy" /\ SourcesEmpty) => (bsource' = bsource /\ bsink' = bsink)]_vars

\* C14 (amended): a copy pass with every source buffer empty advances no
\* position of an attached source buffer, and in AUDIO_STREAM mode, with
\* the producers of the sources in the component's state, it produces
\* nothing into any sink; a RAW_DATA pass of the warm-up still advances the
\* sink by one period.
C14_EmptyInputOutcome ==
    [][(op' = "copy" /\ SourcesEmpty)
          => /\ bsource' = bsource
             /\ (IsAudioStream(mod)
                 /\ \A i \in 1 .. Len(bsource) : bsource[i].peer = dev.state)
                   => bsink' = bsink
             /\ (DeepBuffered /\ ret' = 0 /\ mod'.deep_buff_bytes > 0)
                   => bsink'[1].w = (bsink[1].w + mod.period_bytes) % bsink[1].size]_vars

\* a warm-up pass on empty sources has produced a period into the sink
C14_Witness ==
    /\ op = "copy" /\ ret = 0 /\ calls = {"process"}
    /\ SourcesEmpty
    /\ DeepBuffered /\ mod.deep_buff_bytes > 0
    /\ lbuf[1].avail = 0
    /\ bsink[1].avail > 0

\* C15: no module_adapter_copy pass allocates or frees memory, and blocks
\* are allocated only by new, params and prepare.
C15_CopyKeepsHeap ==
    [][/\ op' = "copy" => heap' = heap
       /\ (\E k \in Kinds : heap'[k] > heap[k]) => op' \in {"new", "params", "prepare"}]_vars

\* a copy pass has run the module on a component holding allocations of its
\* own
C15_Witness ==
    /\ op = "copy" /\ ret = 0 /\ calls = {"process"}
    /\ heap.stream_params = 1 /\ heap.input_buffers = 1 /\ heap.in_data > 0
    /\ heap.local_buffer > 0

\* C16: when an allocation fails during module_adapter_prepare it returns
\* -ENOMEM with its resources rewound: what the call allocated is freed
\* exactly once, the descriptor array pointers are NULL, no intermediate
\* sink buffer stays attached and the lifecycle state is the one before the
\* call.
C16_PrepareRewinds ==
    [][(op' = "prepare" /\ ret' = -ENOMEM)
          => /\ \A k \in Kinds : heap'[k] <= heap[k]
             /\ ghost'.dfree = {}
             /\ mod'.input_buffers = "NULL" /\ mod'.output_buffers = "NULL"
             /\ lbuf' = << >>
             /\ dev'.state = dev.state]_vars

-----------------------------------------------------------------------------
\* AUDIO_STREAM components with any number of buffers attached, brought up
\* and streaming in the same way.
FanCfgs ==
    {c \in ModuleCfgs :
        /\ c.type = "MODULE" /\ c.proc_domain = "LL" /\ c.mode = "AUDIO_STREAM"
        /\ ~c.no_pause /\ ~c.has_trigger /\ ~c.ipc4
        /\ c.in_buff_size = 1 /\ c.out_buff_size = 2}

InitFan == InitWith(FanCfgs, 0 .. MaxBufs, 1 .. MaxBufs)

NextFan ==
    \/ Bringup
    \/ Copy
    \/ UpstreamProduce
    \/ DownstreamConsume
    \/ PeerTrigger

SpecFan == InitFan /\ [][NextFan]_vars

\* the fan-in/out copy is refused
FanRefused ==
    /\ IsAudioStream(mod) /\ dev.type # "HOST" /\ ~mod.stream_copy_single_to_single
    /\ \/ Len(bsink) # 1 /\ Len(bsource) # 1
       \/ Len(bsink) > mod.max_sinks
       \/ Len(bsource) > mod.max_sources

\* C17: an AUDIO_STREAM fan-in/out copy with neither exactly one sink nor
\* exactly one source, or with more sinks than max_sinks or more sources
\* than max_sources, returns -EINVAL without calling the module's process
\* and without advancing any buffer position.
C17_OneSidedFan ==
    [][(op' = "copy" /\ FanRefused)
          => /\ ret' = -EINVAL
             /\ calls' = {} /\ process_ret' = NoRet
             /\ bsource' = bsource /\ bsink' = bsink]_vars

-----------------------------------------------------------------------------
\* The bytes generate_zeroes hands to the sink, checked under SpecZero: the
\* first sink buffer with any contents and any write position.

\* the while loop of generate_zeroes over the sink's memory m: ptr is set to
\* the write pointer, moved tmp bytes on and dropped; nothing is stored
\* through it
RECURSIVE ZeroLoop(_, _, _)
ZeroLoop(m, b, copy_bytes) ==
    IF copy_bytes = 0 THEN m
    ELSE LET tmp == Min(b.size - b.w, copy_bytes)
         IN  ZeroLoop(m, b, copy_bytes - tmp)

\* generate_zeroes(sink, mod->period_bytes), as module_copy_samples calls it
\* in the warm-up
GenerateZeroes ==
    /\ Healthy
    /\ LET S == generate_zeroes(Snap, 1, PeriodBytes)
       IN  /\ mem' = ZeroLoop(mem, bsink[1], PeriodBytes)
           /\ bsink' = S.bsink
           /\ ghost' = S.ghost
    /\ op' = "generate_zeroes"
    /\ ret' = NoRet
    /\ calls' = {} /\ process_ret' = NoRet
    /\ UNCHANGED <<config, dev, mod, heap, bsource, lbuf, ctl, cd, ppl, tick, dpp, ca, irq, rate, scr>>

InitZero ==
    /\ config \in {c \in CopyCfgs : c.mode = "RAW_DATA"}
    /\ dev = NoDev
    /\ mod = NoMod
    /\ heap = EmptyHeap
    /\ bsource = << >>
    /\ \E p \in 0 .. (BufSize - 1) :
          bsink = <<[NewBuf(BufSize, "ACTIVE") EXCEPT !.w = p, !.r = p]>>
    /\ lbuf = << >>
    /\ op = "none"
    /\ ret = NoRet
    /\ calls = {}
    /\ process_ret = NoRet
    /\ ghost = NoGhost
    /\ mem \in [0 .. (BufSize - 1) -> BOOLEAN]      \* TRUE: a byte that is not zero
    /\ ctl = NoCtl
    /\ cd = NoCd
    /\ ppl = NoPpl
    /\ tick = 0
    /\ dpp = NoDpp
    /\ ca = << >>
    /\ irq = << >>
    /\ rate = [source |-> Rate, sink |-> Rate]
    /\ scr = << >>

NextZero ==
    \/ GenerateZeroes
    \/ DownstreamConsume

SpecZero == InitZero /\ [][NextZero]_vars

\* C12: every byte generate_zeroes makes available to the sink is zero,
\* whatever the sink buffer contained before.
C12_ZeroesAreZero ==
    [][op' = "generate_zeroes"
          => \A k \in 0 .. (PeriodBytes - 1) :
                ~mem'[(bsink[1].w + k) % bsink[1].size]]_vars

-----------------------------------------------------------------------------
\* Binary control transfers, checked under SpecCmd: the host sends the
\* fragments of a blob in order; blobs for different components are
\* independent requests and their fragments may alternate.

\* module_adapter_get_set_params: the fragment position and the
\* data_offset_size handed to the module's set_configuration /
\* get_configuration, and the value left in the static size
module_adapter_get_set_params(size, cdata) ==
    LET first == cdata.msg_index = 0
        declared == (cdata.num_elems + cdata.elems_remaining) % UintRange
    IN  [size |-> IF first THEN declared ELSE size,
         data_offset_size |-> IF first THEN declared
                              ELSE (size - (cdata.num_elems + cdata.elems_remaining))
                                       % UintRange,
         pos |-> IF first
                 THEN IF cdata.elems_remaining # 0 THEN "FIRST" ELSE "SINGLE"
                 ELSE IF cdata.elems_remaining # 0 THEN "MIDDLE" ELSE "LAST"]

\* module_adapter_cmd with COMP_CMD_SET_DATA or COMP_CMD_GET_DATA and
\* SOF_CTRL_CMD_BINARY: component c is handed the next fragment, of n
\* elements, of its blob, or the first one of a new blob of total elements
CtrlData ==
    \E c \in 1 .. MaxComps, set \in BOOLEAN, total \in 1 .. MaxElems, n \in 1 .. MaxElems :
        LET x == ctl.xfer[c]
            starting == x.left = 0
            all == IF starting THEN total ELSE x.left
            cdata == [msg_index |-> IF starting THEN 0 ELSE x.msg_index,
                      num_elems |-> n, elems_remaining |-> all - n]
            r == module_adapter_get_set_params(ctl.size, cdata)
        IN  /\ n <= all
            /\ ~starting => total = x.total
            /\ ctl' = [size |-> r.size,
                       xfer |-> [ctl.xfer EXCEPT
                                    ![c] = [total |-> total, left |-> all - n,
                                            msg_index |-> cdata.msg_index + 1]],
                       last |-> [comp |-> c, set |-> set,
                                 msg_index |-> cdata.msg_index,
                                 num_elems |-> n, elems_remaining |-> all - n,
                                 pos |-> r.pos,
                                 data_offset_size |-> r.data_offset_size]]
            /\ UNCHANGED <<adapter, mem, cd, ppl, tick, dpp, ca, irq, rate, scr>>

SpecCmd == Init /\ [][CtrlData]_vars

\* C18: the fragment position follows msg_index and elems_remaining; the
\* total size is the one the first fragment of the blob declared and a
\* later fragment's data offset is that total minus (num_elems +
\* elems_remaining).
C18_FragmentFraming ==
    LET l == ctl.last
        declared == ctl.xfer[l.comp].total
    IN  l.comp # 0
          => /\ l.pos = IF l.msg_index = 0
                        THEN IF l.elems_remaining = 0 THEN "SINGLE" ELSE "FIRST"
                        ELSE IF l.elems_remaining = 0 THEN "LAST" ELSE "MIDDLE"
             /\ l.msg_index = 0 => l.data_offset_size = declared
             /\ l.msg_index > 0
                   => l.data_offset_size = declared - (l.num_elems + l.elems_remaining)

-----------------------------------------------------------------------------
\* The component registry under concurrent callers, checked under SpecReg.
\* A caller is "idle" outside the registry, "locked" after spin_lock, "out"
\* once the body between lock and unlock has run.

\* spin_lock(&cd->lock) at the entry of comp_new, comp_register or
\* comp_unregister: the caller gets past it when the lock is free.  A
\* driver is registered when it is not on the list and unregistered when it
\* is.
RegistryLock(p) ==
    /\ cd.pc[p] = "idle"
    /\ cd.lock = 0
    /\ \E f \in {"comp_new", "comp_register", "comp_unregister"}, u \in 1 .. MaxDrivers :
          /\ f = "comp_register" => u \notin cd.list
          /\ f = "comp_unregister" => u \in cd.list
          /\ cd' = [cd EXCEPT !.lock = p, !.pc[p] = "locked", !.fn[p] = f,
                              !.uuid[p] = u, !.dev[p] = "NULL"]
    /\ UNCHANGED <<adapter, mem, ctl, ppl, tick, dpp, ca, irq, rate, scr>>

\* what runs between spin_lock and spin_unlock: list_add, list_del, or the
\* search for a driver with the uuid and the call of its ops.new
RegistryBody(p) ==
    /\ cd.pc[p] = "locked"
    /\ \E made \in {"dev", "NULL"} :
          cd' = [cd EXCEPT
                   !.pc[p] = "out",
                   !.list = IF cd.fn[p] = "comp_register" THEN @ \cup {cd.uuid[p]}
                            ELSE IF cd.fn[p] = "comp_unregister" THEN @ \ {cd.uuid[p]}
                            ELSE @,
                   !.dev[p] = IF cd.fn[p] = "comp_new" /\ cd.uuid[p] \in cd.list
                              THEN made ELSE "NULL"]
    /\ UNCHANGED <<adapter, mem, ctl, ppl, tick, dpp, ca, irq, rate, scr>>

\* comp_new that returns straight away when no driver has the uuid
RegistryUnlockWhenFound(p) ==
    /\ cd.pc[p] = "out"
    /\ cd' = [cd EXCEPT !.lock = IF cd.fn[p] = "comp_new" /\ cd.uuid[p] \notin cd.list
                                 THEN @ ELSE 0,
                        !.pc[p] = "idle"]
    /\ UNCHANGED <<adapter, mem, ctl, ppl, tick, dpp, ca, irq, rate, scr>>

\* spin_unlock(&cd->lock) and the return
RegistryUnlock(p) ==
    /\ cd.pc[p] = "out"
    /\ cd' = [cd EXCEPT !.lock = 0, !.pc[p] = "idle"]
    /\ UNCHANGED <<adapter, mem, ctl, ppl, tick, dpp, ca, irq, rate, scr>>

NextReg ==
    \/ \E p \in 1 .. MaxCallers : RegistryLock(p)
    \/ \E p \in 1 .. MaxCallers : RegistryBody(p)
    \/ \E p \in 1 .. MaxCallers : RegistryUnlock(p)

SpecReg == Init /\ [][NextReg]_vars

\* C19: at most one caller is between spin_lock and spin_unlock of the
\* registry, the lock is held exactly while one is, and so it is free
\* whenever every call has returned, comp_new without a driver included.
C19_RegistrySerialised ==
    LET inside == {p \in 1 .. MaxCallers : cd.pc[p] # "idle"}
    IN  /\ Cardinality(inside) <= 1
        /\ \A p \in inside : cd.lock = p
        /\ inside = {} => cd.lock = 0

\* comp_new has found no driver with the uuid and returned NULL, with
\* another driver registered
C19_Witness ==
    \E p \in 1 .. MaxCallers :
        /\ cd.pc[p] = "idle" /\ cd.fn[p] = "comp_new"
        /\ cd.uuid[p] \notin cd.list /\ cd.list # {}
        /\ cd.dev[p] = "NULL"
        /\ cd.lock = 0

-----------------------------------------------------------------------------
\* init_static_pipeline call by call, checked under SpecPipe.  The ipc_*
\* calls create or free the object they name; r is what a call returns.

\* the calls of the construction, in the order of the loops
ConstructCalls ==
    <<[call |-> "pipeline_init", kind |-> "none", id |-> 0],
      [call |-> "ipc_pipeline_new", kind |-> "pipeline", id |-> spipe.pipeline_id]>>
    \o [n \in 1 .. Len(spipe.scomps[1]) |->
           [call |-> "ipc_comp_new", kind |-> "comp", id |-> spipe.scomps[1][n]]]
    \o [n \in 1 .. Len(spipe.scomps[2]) |->
           [call |-> "ipc_comp_new", kind |-> "comp", id |-> spipe.scomps[2][n]]]
    \o [n \in 1 .. Len(spipe.buffer) |->
           [call |-> "ipc_buffer_new", kind |-> "buffer", id |-> spipe.buffer[n]]]
    \o [n \in 1 .. spipe.num_connections |->
           [call |-> "ipc_comp_connect", kind |-> "none", id |-> n]]
    \o <<[call |-> "ipc_pipeline_complete", kind |-> "none", id |-> spipe.pipeline_id]>>

\* the calls of the error: label: the pipeline, then for every component
\* array its first sc->num_comps entries with sc the first array, then
\* the buffers
ErrorCalls ==
    LET num_comps == Len(spipe.scomps[1])
    IN  <<[kind |-> "pipeline", id |-> spipe.pipeline_id]>>
        \o [n \in 1 .. num_comps |-> [kind |-> "comp", id |-> spipe.scomps[1][n]]]
        \o [n \in 1 .. num_comps |-> [kind |-> "comp", id |-> spipe.scomps[2][n]]]
        \o [n \in 1 .. Len(spipe.buffer) |-> [kind |-> "buffer", id |-> spipe.buffer[n]]]

\* the next call of the construction returns r
PipeConstruct ==
    /\ ppl.mode = "build"
    /\ \E r \in {0, -ENOMEM, -EINVAL} :
          LET c == ConstructCalls[ppl.pc]
              made == IF c.kind = "none" THEN {} ELSE {[kind |-> c.kind, id |-> c.id]}
          IN  ppl' = IF c.call = "pipeline_init" /\ r < 0
                     THEN [ppl EXCEPT !.mode = "done", !.failed = TRUE, !.ret = 0]
                     ELSE IF c.call = "ipc_pipeline_complete"
                     THEN [ppl EXCEPT !.mode = "done", !.failed = r < 0, !.ret = 0]
                     ELSE IF r < 0
                     THEN [ppl EXCEPT !.mode = "error", !.pc = 1, !.failed = TRUE,
                                      !.ret = r]
                     ELSE [ppl EXCEPT !.pc = @ + 1, !.live = @ \cup made]
    /\ UNCHANGED <<adapter, mem, ctl, cd, tick, dpp, ca, irq, rate, scr>>

\* the next call of the error: label, and the return after the last one
PipeUnwind ==
    /\ ppl.mode = "error"
    /\ LET o == ErrorCalls[ppl.pc]
       IN  ppl' = [ppl EXCEPT
                     !.live = @ \ {o},
                     !.freed = IF o \in ppl.live THEN Append(@, o) ELSE @,
                     !.pc = @ + 1,
                     !.mode = IF ppl.pc = Len(ErrorCalls) THEN "done" ELSE "error"]
    /\ UNCHANGED <<adapter, mem, ctl, cd, tick, dpp, ca, irq, rate, scr>>

NextPipe ==
    \/ PipeConstruct
    \/ PipeUnwind

SpecPipe == Init /\ [][NextPipe]_vars

\* C20: when a construction step has failed, init_static_pipeline returns
\* a negative code and every object created so far has been freed, buffers
\* first, then components, then the pipeline.
C20_PipelineUnwound ==
    (ppl.mode = "done" /\ ppl.failed)
        => /\ ppl.ret < 0
           /\ ppl.live = {}
           /\ \A m, n \in 1 .. Len(ppl.freed) :
                 (m < n) => /\ ppl.freed[m].kind # "pipeline"
                            /\ ppl.freed[m].kind = "comp" => ppl.freed[n].kind # "buffer"

\* C21: a static pipeline that init_static_pipeline has built without a
\* failure has component and buffer ids that are all different, and each
\* of its connections names ids of its component or buffer tables.
C21_DefinitionChecked ==
    (ppl.mode = "done" /\ ~ppl.failed)
        => LET ids == spipe.scomps[1] \o spipe.scomps[2] \o spipe.buffer
           IN  /\ \A m, n \in 1 .. Len(ids) : (ids[m] = ids[n]) => (m = n)
               /\ \A n \in 1 .. Len(spipe.connect) :
                     \A e \in 1 .. 2 :
                        \E m \in 1 .. Len(ids) : ids[m] = spipe.connect[n][e]

\* C22: a HOST or DAI component, whatever the mode of its module: prepare
\* allocates no descriptor array, scratch buffer or intermediate buffer,
\* trigger calls the endpoint's trigger op and nothing else, copy calls the
\* endpoint's process op and nothing else.
C22_EndpointDelegates ==
    [][(dev.alive /\ IsEndpoint)
          => /\ (op' = "prepare")
                   => \A k \in {"input_buffers", "output_buffers", "in_data",
                                "out_data", "local_buffer"} : heap'[k] = heap[k]
             /\ (op' = "trigger") => calls' = {"endpoint_trigger"}
             /\ (op' = "copy") => calls' = {"endpoint_process"}]_vars

-----------------------------------------------------------------------------
\* A RAW_DATA module between a host and a DAI, run by the scheduler one
\* tick after the other, checked under SpecDeep: every size of the
\* module's buffers up to three periods.
DeepCfgs ==
    [type : {"MODULE"}, proc_domain : {"LL"}, mode : {"RAW_DATA"},
     no_pause : {FALSE}, has_trigger : {FALSE}, ipc4 : {FALSE},
     max_sources : {1}, max_sinks : {1},
     in_buff_size : 1 .. 3 * PeriodBytes, out_buff_size : 1 .. 3 * PeriodBytes]

\* One tick: since the tick before the DAI has read a period and the host
\* has written one, as far as there was data or room; then the component's
\* copy runs, with a module that reports no error.
Tick ==
    /\ Healthy
    /\ dev.alive /\ dev.state = "ACTIVE"
    /\ tick < MaxTicks
    /\ \E want \in 0 .. Frames, give \in 0 .. Frames :
          /\ CopyInputs(0, want, give)
          /\ LET later == tick > 0
                 S0 == [Snap EXCEPT
                          !.bsource[1] = IF later
                                         THEN audio_stream_produce(@, Min(PeriodBytes, @.free))
                                         ELSE @,
                          !.bsink[1] = IF later
                                       THEN audio_stream_consume(@, Min(PeriodBytes, @.avail))
                                       ELSE @]
                 res == module_adapter_copy(S0, 0, want, give)
             IN  /\ op' = "copy"
                 /\ ret' = res[1]
                 /\ calls' = res[3]
                 /\ process_ret' = IF res[3] # {} THEN 0 ELSE NoRet
                 /\ dev' = res[2].dev
                 /\ mod' = res[2].mod
                 /\ heap' = res[2].heap
                 /\ lbuf' = res[2].lbuf
                 /\ ghost' = res[2].ghost
                 /\ bsource' = res[2].bsource
                 /\ bsink' = res[2].bsink
    /\ tick' = tick + 1
    /\ UNCHANGED <<config, mem, ctl, cd, ppl, dpp, ca, irq, rate, scr>>

NextDeep ==
    \/ Bringup
    \/ Tick

SpecDeep == InitWith(DeepCfgs, {1}, {1}) /\ [][NextDeep]_vars

\* C23: in_buff_size = 3 x period_bytes, one period of input a tick: the
\* first three passes put a period of zeroes into the sink and stay in the
\* warm-up, the fourth pass leaves the warm-up and delivers what the module
\* produced, and after every pass the sink holds a period for the DAI.
C23_ThreePeriodWarmUp ==
    [][(op' = "copy" /\ config.in_buff_size = 3 * PeriodBytes)
          => /\ bsink'[1].avail >= PeriodBytes
             /\ (tick' <= 3) => mod'.deep_buff_bytes > 0
             /\ (tick' = 4) => mod'.deep_buff_bytes = 0]_vars

-----------------------------------------------------------------------------
\* The period of a DP module, checked under SpecPeriod: the sink loop of
\* module_adapter_dp_queue_prepare on sinks of every size class.

\* min_free_space of a sink: a period of this model, a 1 ms and a 10 ms
\* period of 48 kHz stereo 32-bit audio, the last size whose product with
\* 1000000 fits 32 bits, the first that does not, and larger ones
SinkSizes == {PeriodBytes, 384, 3840, 4294, 4295, 8192, 65536}

\* the sink loop and the adoption of the period; before is dev->period as
\* the module's prepare left it
DpPeriod ==
    /\ dpp = NoDpp
    /\ \E n \in 1 .. MaxBufs, before \in {0, 1000} :
          \E sizes \in [1 .. n -> SinkSizes] :
             LET sink_period == {SinkPeriod(sizes[i]) : i \in 1 .. n}
                 period == CHOOSE x \in sink_period : \A y \in sink_period : x <= y
             IN  dpp' = [min_free |-> sizes, before |-> before,
                         period |-> IF before = 0 THEN period ELSE before]
    /\ UNCHANGED <<adapter, mem, ctl, cd, ppl, tick, ca, irq, rate, scr>>

SpecPeriod == Init /\ [][DpPeriod]_vars

\* C26: after the prepare the period is the one the module had set, or
\* else the least over the sinks of floor(1000000 x min_free_space /
\* (frame_bytes x rate)), whatever the sizes of the sinks (the quotient is
\* taken on the 64ths of both numbers, which is exact for this rate).
C26_PeriodIsMinOverSinks ==
    (dpp # NoDpp)
        => IF dpp.before # 0 THEN dpp.period = dpp.before
           ELSE /\ \E i \in DOMAIN dpp.min_free :
                      dpp.period = (15625 * dpp.min_free[i]) \div (FrameBytes * (Rate \div 64))
                /\ \A i \in DOMAIN dpp.min_free :
                      dpp.period <= (15625 * dpp.min_free[i]) \div (FrameBytes * (Rate \div 64))

-----------------------------------------------------------------------------
\* A SINK_SOURCE module in the DP domain with MaxBufs sources and MaxBufs
\* sinks, checked under SpecDp.
NextDp ==
    \/ Bringup
    \/ Copy
    \/ DpTask
    \/ UpstreamProduce
    \/ DownstreamConsume

SpecDp ==
    /\ InitWith({c \in ModuleCfgs :
                    /\ c.type = "MODULE" /\ c.mode = "SINK_SOURCE" /\ c.proc_domain = "DP"
                    /\ ~c.no_pause /\ ~c.has_trigger /\ ~c.ipc4
                    /\ c.max_sources = MaxBufs /\ c.max_sinks = MaxBufs
                    /\ c.in_buff_size = 1 /\ c.out_buff_size = 2},
                {MaxBufs}, {MaxBufs})
    /\ [][NextDp]_vars

C28_FanOutSkipsSinks ==
    [][(op' = "copy" /\ IsAudioStream(mod) /\ ~mod.stream_copy_single_to_single
        /\ NSources = 1 /\ NSinks > 1)
          => \A j \in 1 .. NSinks :
                (bsink[j].peer # dev.state) => bsink'[j] = bsink[j]]_vars

-----------------------------------------------------------------------------
\* The copy helpers of the RAW_DATA path, checked under SpecCa.  Memory is
\* a sequence of bytes, positions count from 0; a memcpy that reads or
\* writes past the end of its region sets oob.

\* ca_copy_from_source_to_module copying the head only
ca_copy_from_source_to_module_head(source, buff, buff_size, bytes) ==
    LET without_wrap == Len(source.data) - source.r
        n1 == Min(buff_size, Min(bytes, without_wrap))
    IN  [buff |-> [i \in 1 .. Len(buff) |->
                      IF i <= n1 THEN source.data[source.r + i] ELSE buff[i]],
         oob |-> FALSE]

\* ca_copy_from_source_to_module(source, buff, buff_size, bytes); r is the
\* read position of the source, buff the module buffer of buff_size bytes
ca_copy_from_source_to_module(source, buff, buff_size, bytes) ==
    LET size == Len(source.data)
        without_wrap == size - source.r
        head_size == Min(bytes, without_wrap)
        tail_size == bytes - head_size
        n1 == Min(buff_size, head_size)
        b1 == [i \in 1 .. Len(buff) |->
                  IF i <= n1 THEN source.data[source.r + i] ELSE buff[i]]
        from == (source.r + head_size) % size       \* audio_stream_wrap
        n2 == IF tail_size # 0 THEN Min(buff_size, tail_size) ELSE 0
        b2 == [i \in 1 .. Len(buff) |->
                  IF i > head_size /\ i <= head_size + n2 /\ from + i - head_size <= size
                  THEN source.data[from + i - head_size] ELSE b1[i]]
    IN  [buff |-> b2,
         oob |-> n2 > 0 /\ (head_size + n2 > Len(buff) \/ from + n2 > size)]

\* ca_copy_from_module_to_sink(sink, buff, bytes); w is the write position
\* of the sink
ca_copy_from_module_to_sink(sink, buff, bytes) ==
    LET size == Len(sink.data)
        without_wrap == size - sink.w
        head_size == Min(bytes, without_wrap)
        tail_size == bytes - head_size
        n1 == Min(size, head_size)
        d1 == [i \in 1 .. size |->
                  IF i > sink.w /\ i <= sink.w + n1 /\ i - sink.w <= Len(buff)
                  THEN buff[i - sink.w] ELSE sink.data[i]]
        to == (sink.w + head_size) % size           \* audio_stream_wrap
        n2 == IF tail_size # 0 THEN Min(size, tail_size) ELSE 0
        d2 == [i \in 1 .. size |->
                  IF i > to /\ i <= to + n2 /\ head_size + i - to <= Len(buff)
                  THEN buff[head_size + i - to] ELSE d1[i]]
    IN  [data |-> d2,
         oob |-> n1 > Len(buff) \/ (n2 > 0 /\ (head_size + n2 > Len(buff) \/ to + n2 > size))]

\* one call of either helper: a ring of size bytes numbered 1, 2, ..., at
\* position pos, a module buffer of buff_size bytes numbered -1, -2, ...
CaCopy ==
    /\ ca = << >>
    /\ \E size \in 1 .. MaxCap, buff_size \in 1 .. MaxCap, bytes \in 0 .. MaxCap + 1,
          in \in BOOLEAN :
          \E pos \in 0 .. size - 1 :
             LET ring == [i \in 1 .. size |-> i]
                 buff == [i \in 1 .. buff_size |-> -i]
                 src == ca_copy_from_source_to_module([data |-> ring, r |-> pos],
                                                      buff, buff_size, bytes)
                 snk == ca_copy_from_module_to_sink([data |-> ring, w |-> pos], buff, bytes)
             IN  ca' = [in |-> in, size |-> size, pos |-> pos, buff_size |-> buff_size,
                        bytes |-> bytes,
                        ring |-> IF in THEN ring ELSE snk.data,
                        buff |-> IF in THEN src.buff ELSE buff,
                        oob |-> IF in THEN src.oob ELSE snk.oob]
    /\ UNCHANGED <<adapter, mem, ctl, cd, ppl, tick, dpp, irq, rate, scr>>

SpecCa == Init /\ [][CaCopy]_vars

\* C29: a copy of n bytes, n no more than the ring holds and no more than
\* the module buffer holds, moves exactly the n bytes at the position and
\* after it, taken modulo the size of the ring, and touches no other byte.
C29_CopyWithWrapExact ==
    (ca # << >> /\ ca.bytes <= ca.size /\ ca.bytes <= ca.buff_size)
        => /\ ~ca.oob
           /\ ca.in =>
                /\ \A i \in 1 .. ca.bytes : ca.buff[i] = ((ca.pos + i - 1) % ca.size) + 1
                /\ \A i \in ca.bytes + 1 .. ca.buff_size : ca.buff[i] = -i
                /\ \A i \in 1 .. ca.size : ca.ring[i] = i
           /\ ~ca.in =>
                /\ \A i \in 1 .. ca.bytes : ca.ring[((ca.pos + i - 1) % ca.size) + 1] = -i
                /\ \A i \in 1 .. ca.size :
                      (\A k \in 1 .. ca.bytes : i # ((ca.pos + k - 1) % ca.size) + 1)
                         => ca.ring[i] = i
                /\ \A i \in 1 .. ca.buff_size : ca.buff[i] = -i

\* a helper has copied into the sink across the end of the ring
C29_Witness ==
    /\ ca # << >>
    /\ ca.bytes > ca.size - ca.pos /\ ca.bytes <= ca.size /\ ca.bytes <= ca.buff_size
    /\ ca.pos > 0
    /\ ~ca.in
    /\ ca.ring[1] = -(ca.size - ca.pos + 1)

\* C30: no copy advances the write position of an attached sink over
\* bytes that were not written back before.
C30_WritebackBeforeProduce ==
    [][(op' = "copy") => ~ghost'.dirty]_vars

-----------------------------------------------------------------------------
\* The interrupt sections around sink_buffer_list, checked under SpecIrq:
\* prepare and free are followed statement by statement, and a copy pass of
\* the same core may come in between any two statements while interrupts
\* are enabled.  irq.mid is TRUE while buffer_attach or buffer_detach has
\* started relinking the list and has not finished.

\* module_adapter_free with irq_local_disable doing nothing
FreeDetachNoDisable ==
    /\ irq # << >>
    /\ \/ /\ irq.fn = "prepare" /\ irq.pc \in {"done", "failed"}
          /\ irq' = [irq EXCEPT !.fn = "free", !.pc = "free"]
       \/ /\ irq.fn = "free"
          /\ \/ /\ irq.pc = "free"
                /\ irq' = [irq EXCEPT !.pc = IF irq.len = 0 THEN "freed" ELSE "f_disable"]
             \/ /\ irq.pc = "f_disable"
                /\ irq' = [irq EXCEPT !.pc = "f_detach"]
             \/ /\ irq.pc = "f_detach"
                /\ irq' = [irq EXCEPT !.mid = TRUE, !.pc = "f_detach_end"]
             \/ /\ irq.pc = "f_detach_end"
                /\ irq' = [irq EXCEPT !.mid = FALSE, !.len = @ - 1, !.pc = "f_enable"]
             \/ /\ irq.pc = "f_enable"
                /\ irq' = [irq EXCEPT !.enabled = TRUE, !.pc = "f_free"]
             \/ /\ irq.pc = "f_free"
                /\ irq' = [irq EXCEPT !.pc = "free"]
    /\ UNCHANGED <<adapter, mem, ctl, cd, ppl, tick, dpp, ca, rate, scr>>

\* module_adapter_prepare from "allocate buffer for all sinks" on: with an
\* empty sink_buffer_list it allocates and attaches num_of_sinks buffers
\* (508-526), otherwise it resizes the buffers of the list (528-541); a
\* failure goes to the free label, which detaches and frees the whole list
\* (549-558).  One statement per step.
PrepareAttach ==
    \/ /\ irq = << >>
       /\ \E n \in 1 .. MaxBufs :
             irq' = [fn |-> "prepare", pc |-> "alloc", enabled |-> TRUE, mid |-> FALSE,
                     i |-> 0, n |-> n, len |-> 0, torn |-> FALSE, ran |-> FALSE,
                     again |-> FALSE]
       /\ UNCHANGED <<adapter, mem, ctl, cd, ppl, tick, dpp, ca, rate, scr>>
    \/ /\ irq # << >>
       /\ irq.fn = "prepare"
       /\ \/ /\ irq.pc = "done" /\ ~irq.again
             /\ irq' = [irq EXCEPT !.again = TRUE, !.i = 0,
                                   !.pc = IF irq.len = 0 THEN "alloc" ELSE "resize"]
          \/ /\ irq.pc = "alloc"
             /\ \E ok \in BOOLEAN :
                   irq' = [irq EXCEPT !.pc = IF irq.i = irq.n THEN "done"
                                             ELSE IF ok THEN "disable" ELSE "free"]
          \/ /\ irq.pc = "disable"
             /\ irq' = [irq EXCEPT !.enabled = FALSE, !.pc = "attach"]
          \/ /\ irq.pc = "attach"
             /\ irq' = [irq EXCEPT !.mid = TRUE, !.pc = "attach_end"]
          \/ /\ irq.pc = "attach_end"
             /\ irq' = [irq EXCEPT !.mid = FALSE, !.len = @ + 1, !.pc = "enable"]
          \/ /\ irq.pc = "enable"
             /\ irq' = [irq EXCEPT !.enabled = TRUE, !.pc = "params"]
          \/ /\ irq.pc = "params"
             /\ irq' = [irq EXCEPT !.i = @ + 1, !.pc = "alloc"]
          \/ /\ irq.pc = "resize"
             /\ \E ok \in BOOLEAN :
                   irq' = [irq EXCEPT !.i = IF irq.i < irq.len /\ ok THEN @ + 1 ELSE @,
                                      !.pc = IF irq.i = irq.len THEN "done"
                                             ELSE IF ok THEN "resize" ELSE "free"]
          \/ /\ irq.pc = "free"
             /\ irq' = [irq EXCEPT !.pc = IF irq.len = 0 THEN "failed" ELSE "f_disable"]
          \/ /\ irq.pc = "f_disable"
             /\ irq' = [irq EXCEPT !.enabled = FALSE, !.pc = "f_detach"]
          \/ /\ irq.pc = "f_detach"
             /\ irq' = [irq EXCEPT !.mid = TRUE, !.pc = "f_detach_end"]
          \/ /\ irq.pc = "f_detach_end"
             /\ irq' = [irq EXCEPT !.mid = FALSE, !.len = @ - 1, !.pc = "f_enable"]
          \/ /\ irq.pc = "f_enable"
             /\ irq' = [irq EXCEPT !.enabled = TRUE, !.pc = "f_free"]
          \/ /\ irq.pc = "f_free"
             /\ irq' = [irq EXCEPT !.pc = "free"]
       /\ UNCHANGED <<adapter, mem, ctl, cd, ppl, tick, dpp, ca, rate, scr>>

\* module_adapter_free after module_free: it detaches and frees every buffer
\* of sink_buffer_list (1490-1499), whether the last prepare succeeded or
\* failed.  One statement per step.
FreeDetach ==
    /\ irq # << >>
    /\ \/ /\ irq.fn = "prepare" /\ irq.pc \in {"done", "failed"}
          /\ irq' = [irq EXCEPT !.fn = "free", !.pc = "free"]
       \/ /\ irq.fn = "free"
          /\ \/ /\ irq.pc = "free"
                /\ irq' = [irq EXCEPT !.pc = IF irq.len = 0 THEN "freed" ELSE "f_disable"]
             \/ /\ irq.pc = "f_disable"
                /\ irq' = [irq EXCEPT !.enabled = FALSE, !.pc = "f_detach"]
             \/ /\ irq.pc = "f_detach"
                /\ irq' = [irq EXCEPT !.mid = TRUE, !.pc = "f_detach_end"]
             \/ /\ irq.pc = "f_detach_end"
                /\ irq' = [irq EXCEPT !.mid = FALSE, !.len = @ - 1, !.pc = "f_enable"]
             \/ /\ irq.pc = "f_enable"
                /\ irq' = [irq EXCEPT !.enabled = TRUE, !.pc = "f_free"]
             \/ /\ irq.pc = "f_free"
                /\ irq' = [irq EXCEPT !.pc = "free"]
    /\ UNCHANGED <<adapter, mem, ctl, cd, ppl, tick, dpp, ca, rate, scr>>

\* A copy pass of the scheduler interrupts prepare or free on the same core.
\* irq_local_disable masks the interrupts of the local core until
\* irq_local_enable, so the pass is taken only while they are enabled; it
\* walks sink_buffer_list and is torn when the list is half relinked.
CopyIrq ==
    /\ irq # << >>
    /\ irq.enabled
    /\ irq.pc # "freed"
    /\ irq' = [irq EXCEPT !.ran = TRUE, !.torn = @ \/ irq.mid]
    /\ UNCHANGED <<adapter, mem, ctl, cd, ppl, tick, dpp, ca, rate, scr>>

SpecIrq == Init /\ [][PrepareAttach \/ FreeDetach \/ CopyIrq]_vars

\* C31: no copy pass runs while buffer_attach or buffer_detach is relinking
\* sink_buffer_list (interrupts are disabled from before its start to after
\* its end), and whenever prepare or free has returned, interrupts are
\* enabled again.
C31_AttachDetachAtomic ==
    irq # << >>
        => /\ ~irq.torn
           /\ irq.mid => ~irq.enabled
           /\ irq.pc \in {"done", "failed", "freed"} => irq.enabled

\* A second sink buffer could not be allocated: prepare detached the first
\* one again and returned, and a copy pass was taken on the way
C31_Witness ==
    /\ irq # << >>
    /\ irq.fn = "prepare" /\ irq.pc = "failed"
    /\ irq.n = 2 /\ irq.i = 1 /\ irq.len = 0
    /\ irq.ran

-----------------------------------------------------------------------------
\* The stream rate of the attached buffers, checked under SpecRate: the
\* ipc4 components of SpecCopy, whose buffers were given their rate, or
\* none (0), before prepare.

\* The pipeline's params walk sets the stream parameters of the source and of
\* the sink buffer (buffer_set_params, outside the adapter) while the
\* component is READY; a rate of 0 is a missing rate.
StreamRate ==
    /\ Healthy
    /\ dev.alive /\ dev.state = "READY"
    /\ \E s \in {0, Rate}, k \in {0, Rate} :
          /\ rate # [source |-> s, sink |-> k]
          /\ rate' = [source |-> s, sink |-> k]
    /\ UNCHANGED <<adapter, mem, ctl, cd, ppl, tick, dpp, ca, irq, scr>>

SpecRate ==
    InitWith({c \in CopyCfgs : c.ipc4}, {1}, {1}) /\ [][NextFan \/ StreamRate]_vars

\* C32: a copy on the 1:1 fast path whose source or sink stream has no rate
\* returns PATH_STOP, does not call the module's process and advances neither
\* buffer.
C32_MissingRateHalts ==
    [][(op' = "copy" /\ mod.stream_copy_single_to_single
        /\ (rate.source = 0 \/ rate.sink = 0))
          => /\ ret' = PPL_STATUS_PATH_STOP
             /\ calls' = {}
             /\ bsource' = bsource /\ bsink' = bsink]_vars

\* C33: when the module's process returns a negative value other than
\* -ENOSPC and -ENODATA, module_adapter_copy returns that value, no attached
\* or intermediate buffer is read or written further, and every descriptor's
\* size and consumed fields are zero afterwards.  Checked under SpecCopy.
C33_ProcessErrorMovesNothing ==
    [][(op' = "copy" /\ process_ret' < 0 /\ process_ret' \notin {-ENOSPC, -ENODATA})
          => /\ ret' = process_ret'
             /\ bsource' = bsource /\ bsink' = bsink /\ lbuf' = lbuf
             /\ \A i \in Idx :
                   /\ mod'.in_desc[i].size = 0 /\ mod'.in_desc[i].consumed = 0
                   /\ mod'.out_desc[i].size = 0]_vars

\* C34: a SINK_SOURCE/DP prepare in which a dp_queue_create fails returns
\* -ENOMEM with no more DP queues allocated than before the call, has walked
\* only queue lists that list_init set up, and leaves num_of_sources and
\* num_of_sinks at 0 and no source or sink endpoint of the module pointing at
\* a DP queue.  Checked under Spec.
C34_DpQueueFailureUnwinds ==
    [][(op' = "prepare" /\ IsSinkSource(mod) /\ dev.proc_domain = "DP"
        /\ ret' = -ENOMEM)
          => /\ heap'["dp_queue"] <= heap["dp_queue"]
             /\ ~ghost'.badptr
             /\ mod'.num_of_sources = 0 /\ mod'.num_of_sinks = 0
             /\ \A i \in Idx : mod'.sources[i] # "dpq" /\ mod'.sinks[i] # "dpq"]_vars

-----------------------------------------------------------------------------
\* RAW_DATA components of one sink and one or two sources with one sink and
\* one or two sources attached, whatever number the module declared: brought
\* up and copying the first period of its sources, among neighbours that
\* start and stop.
SpecAttach ==
    /\ InitWith({c \in ModuleCfgs :
                    /\ c.type = "MODULE" /\ c.proc_domain = "LL" /\ c.mode = "RAW_DATA"
                    /\ ~c.no_pause /\ ~c.has_trigger /\ ~c.ipc4
                    /\ c.in_buff_size = 1 /\ c.out_buff_size = 2
                    /\ c.max_sinks = 1},
                1 .. MaxBufs, {1})
    /\ [][Bringup \/ Copy \/ PeerTrigger]_vars

\* C35: no prepare or copy (a reset neither) indexes the input or output
\* descriptor array at or beyond max_sources or max_sinks, whatever the
\* number of attached buffers.  Checked under SpecAttach.
C35_DescriptorIndexInRange ==
    [][(op' \in {"prepare", "copy", "reset"}) => ~ghost'.oob]_vars

-----------------------------------------------------------------------------
\* The size of the input scratch buffers, checked under SpecScratch.  Sizes
\* are counted in units of 2^24 bytes, so that the 32-bit range of
\* deep_buff_bytes is UintRange units and the arithmetic on multiples of the
\* unit is exact.

\* The deep-buffer heuristic of module_adapter_prepare on in_buff_size and
\* period_bytes (443-461; buff_periods and the product are uint32_t) and the
\* size of the input scratch buffers it allocates (483-485).  The sizes are
\* one to three units, a third and a half of the 32-bit range and its last
\* unit.
InputScratch ==
    /\ scr = << >>
    /\ \E in_buff_size \in {1, 2, 3, 86, 128, 255}, period_bytes \in {1, 2, 3, 86, 128, 255} :
          LET buff_periods == BuffPeriods(in_buff_size, period_bytes)
              deep_buff_bytes ==
                  IF in_buff_size # period_bytes
                  THEN (Min(period_bytes, in_buff_size) * buff_periods) % UintRange
                  ELSE 0
          IN  scr' = [in_buff_size |-> in_buff_size, period_bytes |-> period_bytes,
                      deep_buff_bytes |-> deep_buff_bytes,
                      size |-> Max(deep_buff_bytes, period_bytes)]
    /\ UNCHANGED <<adapter, mem, ctl, cd, ppl, tick, dpp, ca, irq, rate>>

SpecScratch == Init /\ [][InputScratch]_vars

\* C36: whatever in_buff_size and period_bytes are, the input scratch buffer
\* that RAW_DATA prepare allocates holds in_buff_size bytes at least, which
\* is the most a copy pass writes into it.
C36_ScratchHoldsInBuffSize ==
    (scr # << >>) => scr.size >= scr.in_buff_size

\* C37: a copy pass in which the module's process is called adds to
\* total_data_consumed the bytes the pass took out of the first source and to
\* total_data_produced the bytes it put into the first output (the
\* intermediate buffer of a RAW_DATA component, the first sink otherwise), so
\* that between two resets the totals are the sums over the passes; a reset
\* that succeeds leaves both at zero.  Checked under Spec.
C37_TotalsAreSums ==
    [][/\ (op' = "copy" /\ calls' = {"process"}
           /\ Len(bsource) > 0 /\ Len(bsink) > 0 /\ (IsRaw(mod) => Len(lbuf) > 0))
          => LET out == IF IsRaw(mod) THEN lbuf[1] ELSE bsink[1]
                 outp == IF IsRaw(mod) THEN lbuf'[1] ELSE bsink'[1]
                 consumed == (bsource'[1].r - bsource[1].r) % bsource[1].size
                 produced == (outp.w - out.w) % out.size
             IN  /\ mod'.total_data_consumed = mod.total_data_consumed + consumed
                 /\ mod'.total_data_produced = mod.total_data_produced + produced
       /\ (op' = "reset" /\ ret' = 0)
          => mod'.total_data_consumed = 0 /\ mod'.total_data_produced = 0]_vars

\* C38: in a RAW_DATA copy pass that calls the module's process, a source
\* whose producer is not in the component's lifecycle state is left as it
\* was, and every other source is consumed by what the module took out of
\* the scratch buffer filled from that source: the same number of bytes
\* from every input, or all the input held.  Checked under SpecAttach.
C38_SkippedSourceUntouched ==
    [][(op' = "copy" /\ IsRaw(mod) /\ calls' = {"process"})
          => LET live(s) == bsource[s].peer = dev.state
                 fill(s) == Min(CapByMinFreeFrames(Snap,
                                    audio_stream_get_avail_frames(bsource[s])) * FrameBytes,
                                mod.in_buff_size)
                 consumed(s) == (bsource'[s].r - bsource[s].r) % bsource[s].size
             IN  /\ \A s \in 1 .. Len(bsource) : ~live(s) => bsource'[s] = bsource[s]
                 /\ \E want \in 0 .. Frames :
                       \A s \in 1 .. Len(bsource) :
                          live(s) => consumed(s) = Min(want, fill(s))]_vars

\* C39: a later fragment for one component that follows directly on the
\* first fragment of a transfer to another component is handed the data
\* offset computed from the total its own component's first fragment
\* declared.  Checked under SpecCmd.
C39_InterleavedTransfers ==
    [][(/\ ctl.last.comp # 0 /\ ctl.last.msg_index = 0
        /\ ctl'.last.comp # ctl.last.comp /\ ctl'.last.msg_index > 0)
          => LET l == ctl'.last
             IN  l.data_offset_size
                    = ctl'.xfer[l.comp].total - (l.num_elems + l.elems_remaining)]_vars

\* C40: a trigger(PAUSE) on a component that is not ACTIVE does not make it
\* ACTIVE, and on a non-endpoint component with no_pause set that is in
\* READY, PREPARE or PAUSED it leaves the state as it was.  Checked under
\* Spec.
C40_PauseNeverActivates ==
    [][(/\ \E m \in {0, -EINVAL} : module_adapter_trigger("PAUSE", m)
        /\ dev.state # "ACTIVE")
          => /\ dev'.state # "ACTIVE"
             /\ (~IsEndpoint /\ mod.no_pause
                 /\ dev.state \in {"READY", "PREPARE", "PAUSED"})
                   => dev'.state = dev.state]_vars

====
